---- MODULE Spec2Model ----
(***************************************************************************)
(* Model of the fxbot3 simulation core: the bar-by-bar backtest engine     *)
(* (fxbot/backtest/engine.py), the stop manager and the position sizer     *)
(* (fxbot/risk/stop_manager.py, position_sizer.py), the signal generator   *)
(* (fxbot/strategy/signal.py), the drawdown metric                         *)
(* (fxbot/backtest/metrics.py), the walk-forward loop                      *)
(* (fxbot/backtest/wfo.py), the trade log with its monitor                 *)
(* (fxbot/trade_logger.py, fxbot/model/monitor.py) and the cancellation of *)
(* the live trading worker (fxbot/gui/workers.py).                         *)
(*                                                                         *)
(* Numbers.  Prices, ATR values and balances are the floats of the code    *)
(* restricted to integer values.  A lot is stored in hundredths (the       *)
(* code rounds lots to two decimals), max_risk_per_trade in percent, a     *)
(* prediction in units of 1e-4.  An optional value (None, NaN, a missing   *)
(* column) is the empty sequence, a present value v is <<v>>.              *)
(***************************************************************************)
EXTENDS Integers, Sequences, FiniteSets

VARIABLES
    settings,        \* Settings: the trading / risk / backtest sections
    point,           \* run(): the point argument
    num_predictions, \* run(): len(predictions)
    feature_matrix,  \* run(): the rows iterated so far (the input has at least these)
    predictions,     \* run(): the predictions read so far
    bt_pc,           \* run(): "loop" | "done" | "raised"
    balance,         \* run(): balance
    positions,       \* run(): positions
    trades,          \* run(): trades
    equity_series,   \* run(): equity_series, one [time, value] per bar
    opened,          \* history: the entry times of the positions created
    ts_side,         \* update_trailing_stop: side
    ts_entry_price,  \* update_trailing_stop: entry_price
    ts_stops,        \* update_trailing_stop: stop_levels
    ts_current_sl,   \* the stop in force: the initial SL, replaced by every non-null result
    ts_price,        \* the current_price of the last call
    ts_result,       \* the result of the last call
    ts_calls,        \* number of calls made
    wfo_pc,          \* run_wfo: "start" | "loop" | "done" | "raised"
    index,           \* run_wfo: feature_matrix.index, the bar timestamps in ticks
    horizon,         \* run_wfo: settings.trading.prediction_horizon
    train_days,      \* run_wfo: train_days (after the automatic adjustment)
    test_days,       \* run_wfo: test_days (after the automatic adjustment)
    cursor,          \* run_wfo: cursor
    fold_num,        \* run_wfo: fold_num
    folds,           \* run_wfo: folds
    train_data,      \* run_wfo: train_data of the last iteration (timestamps)
    test_data,       \* run_wfo: test_data of the last iteration (timestamps)
    all_equities,    \* run_wfo: all_equities
    all_trades,      \* run_wfo: all_trades, one list of trades per fold that traded
    combined_equity, \* run_wfo: combined_equity
    combined_trades, \* run_wfo: combined_trades
    overall_metrics, \* run_wfo: overall_metrics
    dd_equity,       \* calc_max_drawdown: equity (None outside a call)
    dd_result,       \* calc_max_drawdown: the returned (dd_abs, dd_pct)
    cl_args,         \* calculate_lot: the arguments
    cl_result,       \* calculate_lot: the returned lot
    cs_args,         \* calculate_stops: the arguments
    cs_result,       \* calculate_stops: the returned StopLevels
    gs_args,         \* generate_signal: the arguments
    gs_result,       \* generate_signal: the returned TradeSignal or the exception raised
    tl_rows,         \* TradeLogger: the rows of the trades table, in id order
    mon_cfg,         \* ModelMonitor: window, min_win_rate, min_sharpe
    mon_result,      \* ModelMonitor.check: the dict returned by the last call
    mon_last,        \* the last operation on the log: "none" | "log_entry" | "log_exit" | "check"
    tw_pc,           \* TradingWorker.run: the position of the worker thread
    running,         \* TradingWorker._running
    tw_models,       \* TradingWorker.run: whether `models` is non-empty
    tw_cycles,       \* history: bar-evaluation cycles started
    tw_ops,          \* this cycle's order / stop-modification calls not yet made
    tw_wait,         \* _wait_for_next_bar: iterations of the polling loop left
    tw_emitted,      \* the signals emitted so far, in order
    tw_stop_cycles,  \* history: tw_cycles when stop() was first called (None before)
    tw_late_sleeps   \* history: sleep(1) calls of the bar wait that returned after stop()

btVars == <<settings, point, num_predictions, feature_matrix, predictions,
            bt_pc, balance, positions, trades, equity_series, opened>>

tsVars == <<ts_side, ts_entry_price, ts_stops, ts_current_sl, ts_price, ts_result, ts_calls>>

wfoVars == <<wfo_pc, index, horizon, train_days, test_days, cursor, fold_num, folds,
             train_data, test_data, all_equities, all_trades,
             combined_equity, combined_trades, overall_metrics>>

fnVars == <<dd_equity, dd_result, cl_args, cl_result, cs_args, cs_result, gs_args, gs_result>>

monVars == <<tl_rows, mon_cfg, mon_result, mon_last>>

twVars == <<tw_pc, running, tw_models, tw_cycles, tw_ops, tw_wait, tw_emitted,
            tw_stop_cycles, tw_late_sleeps>>

vars == <<btVars, tsVars, wfoVars, fnVars, monVars, twVars>>

None == <<>>
Some(v) == <<v>>

Abs(x) == IF x < 0 THEN -x ELSE x
Max(a, b) == IF a >= b THEN a ELSE b
Min(a, b) == IF a <= b THEN a ELSE b

RECURSIVE SumSeq(_)
SumSeq(s) == IF s = <<>> THEN 0 ELSE Head(s) + SumSeq(Tail(s))

MapPnl(ts) == [k \in 1..Len(ts) |-> ts[k].pnl]

(***************************************************************************)
(* Bounds and input sets.                                                  *)
(***************************************************************************)
MaxBars == 3

\* lots are kept in hundredths: round(lot, 2)
LotScale == 100
\* units per lot in the P&L and lot formulas
ContractSize == 100000
\* the ATR fallback close * 0.001, as close / AtrFallbackDiv
AtrFallbackDiv == 1000

PredValues == {-6, 0, 5, 6}

Rows ==
    { [close |-> 2000, high |-> 2000, low |-> 2000, atr |-> Some(500)],
      [close |-> 2000, high |-> 2000, low |-> 2000, atr |-> None],
      [close |-> 3000, high |-> 3000, low |-> 3000, atr |-> Some(500)],
      [close |-> 3000, high |-> 3000, low |-> 3000, atr |-> None],
      [close |-> 2000, high |-> 3000, low |-> 1000, atr |-> None],
      [close |-> 3000, high |-> 4000, low |-> 3000, atr |-> Some(500)] }

MakeSettings(mp, sp) ==
    [ max_positions |-> mp,
      min_prediction_threshold |-> 5,
      min_lot |-> 1,
      max_lot |-> 10,
      max_risk_per_trade |-> 2,
      atr_sl_multiplier |-> 2,
      atr_tp_multiplier |-> 3,
      trailing_atr_multiplier |-> 1,
      trailing_activation_atr |-> 1,
      initial_balance |-> 1000000,
      spread_pips |-> sp ]

SettingsChoices == { MakeSettings(1, 0), MakeSettings(2, 2) }

(***************************************************************************)
(* BacktestEngine.run, one bar of the loop.                                *)
(***************************************************************************)
Spread(cfg, pt) == cfg.spread_pips * pt * 10

RowAtr(row) == IF row.atr # None THEN row.atr[1] ELSE row.close \div AtrFallbackDiv

\* Python truthiness of `pos.trailing_sl`: None and 0.0 are false
Truthy(t) == t # None /\ t[1] # 0

\* UpdateTrailing without the "only if better" comparison
UpdateTrailingUnguarded(pos, row, atr, cfg) ==
    IF pos.side = "buy"
    THEN IF row.high >= pos.entry_price + atr * cfg.trailing_activation_atr
         THEN Some(row.high - atr * cfg.trailing_atr_multiplier)
         ELSE pos.trailing_sl
    ELSE IF row.low <= pos.entry_price - atr * cfg.trailing_activation_atr
         THEN Some(row.low + atr * cfg.trailing_atr_multiplier)
         ELSE pos.trailing_sl

UpdateTrailing(pos, row, atr, cfg) ==
    IF pos.side = "buy"
    THEN LET activation == pos.entry_price + atr * cfg.trailing_activation_atr
             new_trailing == row.high - atr * cfg.trailing_atr_multiplier
         IN  IF row.high >= activation
                  /\ (pos.trailing_sl = None \/ new_trailing > pos.trailing_sl[1])
             THEN Some(new_trailing)
             ELSE pos.trailing_sl
    ELSE LET activation == pos.entry_price - atr * cfg.trailing_activation_atr
             new_trailing == row.low + atr * cfg.trailing_atr_multiplier
         IN  IF row.low <= activation
                  /\ (pos.trailing_sl = None \/ new_trailing < pos.trailing_sl[1])
             THEN Some(new_trailing)
             ELSE pos.trailing_sl

\* the exit check with the trailing stop updated and tested before SL and TP
ExitCheckTrailingFirst(pos, row, atr, cfg) ==
    LET p1 == [pos EXCEPT !.trailing_sl = UpdateTrailing(pos, row, atr, cfg)]
        touched == /\ Truthy(p1.trailing_sl)
                   /\ IF pos.side = "buy" THEN row.low <= p1.trailing_sl[1]
                                          ELSE row.high >= p1.trailing_sl[1]
        hit_sl == IF pos.side = "buy" THEN row.low <= pos.sl ELSE row.high >= pos.sl
        hit_tp == IF pos.side = "buy" THEN row.high >= pos.tp ELSE row.low <= pos.tp
    IN  IF touched
        THEN [pos |-> p1, exit_price |-> p1.trailing_sl, exit_reason |-> "trailing"]
        ELSE IF hit_sl
        THEN [pos |-> pos, exit_price |-> Some(pos.sl), exit_reason |-> "sl"]
        ELSE IF hit_tp
        THEN [pos |-> pos, exit_price |-> Some(pos.tp), exit_reason |-> "tp"]
        ELSE [pos |-> p1, exit_price |-> None, exit_reason |-> ""]

\* the exit check with TP tested before SL
ExitCheckTpFirst(pos, row, atr, cfg) ==
    LET p1 == [pos EXCEPT !.trailing_sl = UpdateTrailing(pos, row, atr, cfg)]
        touched == /\ Truthy(p1.trailing_sl)
                   /\ IF pos.side = "buy" THEN row.low <= p1.trailing_sl[1]
                                          ELSE row.high >= p1.trailing_sl[1]
        hit_sl == IF pos.side = "buy" THEN row.low <= pos.sl ELSE row.high >= pos.sl
        hit_tp == IF pos.side = "buy" THEN row.high >= pos.tp ELSE row.low <= pos.tp
    IN  IF hit_tp
        THEN [pos |-> pos, exit_price |-> Some(pos.tp), exit_reason |-> "tp"]
        ELSE IF hit_sl
        THEN [pos |-> pos, exit_price |-> Some(pos.sl), exit_reason |-> "sl"]
        ELSE IF touched
        THEN [pos |-> p1, exit_price |-> p1.trailing_sl, exit_reason |-> "trailing"]
        ELSE [pos |-> p1, exit_price |-> None, exit_reason |-> ""]

ExitCheck(pos, row, atr, cfg) ==
    IF pos.side = "buy"
    THEN IF row.low <= pos.sl
         THEN [pos |-> pos, exit_price |-> Some(pos.sl), exit_reason |-> "sl"]
         ELSE IF row.high >= pos.tp
         THEN [pos |-> pos, exit_price |-> Some(pos.tp), exit_reason |-> "tp"]
         ELSE LET p1 == [pos EXCEPT !.trailing_sl = UpdateTrailing(pos, row, atr, cfg)]
              IN  IF Truthy(p1.trailing_sl) /\ row.low <= p1.trailing_sl[1]
                  THEN [pos |-> p1, exit_price |-> p1.trailing_sl, exit_reason |-> "trailing"]
                  ELSE [pos |-> p1, exit_price |-> None, exit_reason |-> ""]
    ELSE IF row.high >= pos.sl
         THEN [pos |-> pos, exit_price |-> Some(pos.sl), exit_reason |-> "sl"]
         ELSE IF row.low <= pos.tp
         THEN [pos |-> pos, exit_price |-> Some(pos.tp), exit_reason |-> "tp"]
         ELSE LET p1 == [pos EXCEPT !.trailing_sl = UpdateTrailing(pos, row, atr, cfg)]
              IN  IF Truthy(p1.trailing_sl) /\ row.high >= p1.trailing_sl[1]
                  THEN [pos |-> p1, exit_price |-> p1.trailing_sl, exit_reason |-> "trailing"]
                  ELSE [pos |-> p1, exit_price |-> None, exit_reason |-> ""]

Pnl(pos, exit_price, spread) ==
    IF pos.side = "buy"
    THEN (exit_price - pos.entry_price - spread) * pos.lot * (ContractSize \div LotScale)
    ELSE (pos.entry_price - exit_price - spread) * pos.lot * (ContractSize \div LotScale)

MakeTrade(pos, time, exit_price, exit_reason, spread) ==
    [ entry_time |-> pos.entry_time, exit_time |-> time, side |-> pos.side,
      entry_price |-> pos.entry_price, exit_price |-> exit_price, lot |-> pos.lot,
      pnl |-> Pnl(pos, exit_price, spread), exit_reason |-> exit_reason ]

\* the trades of the positions the exit check closed, in list order
ClosedTrades(checked, time, spread) ==
    LET hit == SelectSeq(checked, LAMBDA c : c.exit_price # None)
    IN  [k \in 1..Len(hit) |->
            MakeTrade(hit[k].pos, time, hit[k].exit_price[1], hit[k].exit_reason, spread)]

\* Survivors without the removal of the closed positions
SurvivorsKeepAll(checked) == [k \in 1..Len(checked) |-> checked[k].pos]

\* positions.pop(idx) for every closed index
Survivors(checked) ==
    LET keep == SelectSeq(checked, LAMBDA c : c.exit_price = None)
    IN  [k \in 1..Len(keep) |-> keep[k].pos]

\* round(x, 2) of the lot num / den (in hundredths, den > 0): half to even
RoundHalfEven(num, den) ==
    LET q == num \div den
        r == num % den
    IN  IF 2 * r > den THEN q + 1
        ELSE IF 2 * r < den THEN q
        ELSE IF q % 2 = 0 THEN q ELSE q + 1

EntryLot(bal, atr, cfg) ==
    LET risk_num == bal * cfg.max_risk_per_trade
        sl_distance == atr * cfg.atr_sl_multiplier
        den == sl_distance * ContractSize
    IN  IF sl_distance > 0
        THEN IF risk_num <= cfg.min_lot * den THEN cfg.min_lot
             ELSE IF risk_num >= cfg.max_lot * den THEN Max(cfg.min_lot, cfg.max_lot)
             ELSE RoundHalfEven(risk_num, den)
        ELSE cfg.min_lot

\* EntrySignal with a non-strict comparison
EntrySignalNonStrict(pred, cfg) == Abs(pred) >= cfg.min_prediction_threshold

EntrySignal(pred, cfg) == Abs(pred) > cfg.min_prediction_threshold

\* HasRoom off by one
HasRoomOffByOne(survivors, cfg) == Len(survivors) <= cfg.max_positions

HasRoom(survivors, cfg) == Len(survivors) < cfg.max_positions

NewPosition(pred, row, time, atr, bal, spread, cfg) ==
    IF pred > 0
    THEN [ entry_time |-> time, side |-> "buy",
           entry_price |-> row.close + spread \div 2,
           lot |-> EntryLot(bal, atr, cfg),
           sl |-> row.close - atr * cfg.atr_sl_multiplier,
           tp |-> row.close + atr * cfg.atr_tp_multiplier,
           trailing_sl |-> None ]
    ELSE [ entry_time |-> time, side |-> "sell",
           entry_price |-> row.close - spread \div 2,
           lot |-> EntryLot(bal, atr, cfg),
           sl |-> row.close + atr * cfg.atr_sl_multiplier,
           tp |-> row.close - atr * cfg.atr_tp_multiplier,
           trailing_sl |-> None ]

Unrealized(pos, close) ==
    IF pos.side = "buy"
    THEN (close - pos.entry_price) * pos.lot * (ContractSize \div LotScale)
    ELSE (pos.entry_price - close) * pos.lot * (ContractSize \div LotScale)

UnrealizedAll(ps, close) == SumSeq([k \in 1..Len(ps) |-> Unrealized(ps[k], close)])

\* EquityPoint without the unrealised part
EquityPointBalanceOnly(bal, ps, row, time) == [time |-> time, value |-> bal]

\* equity_series[time] = balance + unrealized
EquityPoint(bal, ps, row, time) ==
    [time |-> time, value |-> bal + UnrealizedAll(ps, row.close)]

\* EngineBar with the entry made before the exit check of the same bar
EngineBarEntryFirst(st, row, time, pred, cfg, pt) ==
    LET spread == Spread(cfg, pt)
        atr == RowAtr(row)
        enter == pred # None /\ HasRoom(st.positions, cfg) /\ EntrySignal(pred[1], cfg)
        pos0 == IF enter
                THEN Append(st.positions,
                            NewPosition(pred[1], row, time, atr, st.balance, spread, cfg))
                ELSE st.positions
        checked == [j \in 1..Len(pos0) |-> ExitCheck(pos0[j], row, atr, cfg)]
        closed == ClosedTrades(checked, time, spread)
        bal1 == st.balance + SumSeq(MapPnl(closed))
        pos1 == Survivors(checked)
    IN  [ balance |-> bal1,
          positions |-> pos1,
          trades |-> st.trades \o closed,
          equity_series |-> Append(st.equity_series, EquityPoint(bal1, pos1, row, time)),
          entered |-> enter ]

\* one iteration of the bar loop on the engine state st = [balance, positions,
\* trades, equity_series]; pred is None when i >= len(predictions)
EngineBar(st, row, time, pred, cfg, pt) ==
    LET spread == Spread(cfg, pt)
        atr == RowAtr(row)
        checked == [j \in 1..Len(st.positions) |-> ExitCheck(st.positions[j], row, atr, cfg)]
        closed == ClosedTrades(checked, time, spread)
        bal1 == st.balance + SumSeq(MapPnl(closed))
        pos1 == Survivors(checked)
        enter == pred # None /\ HasRoom(pos1, cfg) /\ EntrySignal(pred[1], cfg)
        pos2 == IF enter
                THEN Append(pos1, NewPosition(pred[1], row, time, atr, bal1, spread, cfg))
                ELSE pos1
    IN  [ balance |-> bal1,
          positions |-> pos2,
          trades |-> st.trades \o closed,
          equity_series |-> Append(st.equity_series, EquityPoint(bal1, pos2, row, time)),
          entered |-> enter ]

\* EndTrades that leaves the open positions unliquidated
EndTradesNone(ps, final_close, final_time, spread) == <<>>

\* the forced liquidation after the loop
EndTrades(ps, final_close, final_time, spread) ==
    [k \in 1..Len(ps) |-> MakeTrade(ps[k], final_time, final_close, "end", spread)]

(***************************************************************************)
(* stop_manager.update_trailing_stop.                                      *)
(***************************************************************************)
\* update_trailing_stop without the comparison with current_sl
UpdateTrailingStopUnguarded(side, current_price, entry_price, current_sl, stop_levels) ==
    IF side = "buy"
    THEN IF current_price - entry_price >= stop_levels.trailing_activation
         THEN Some(current_price - stop_levels.trailing_distance)
         ELSE None
    ELSE IF entry_price - current_price >= stop_levels.trailing_activation
         THEN Some(current_price + stop_levels.trailing_distance)
         ELSE None

UpdateTrailingStop(side, current_price, entry_price, current_sl, stop_levels) ==
    IF side = "buy"
    THEN LET profit == current_price - entry_price
             new_sl == current_price - stop_levels.trailing_distance
         IN  IF profit >= stop_levels.trailing_activation /\ new_sl > current_sl
             THEN Some(new_sl)
             ELSE None
    ELSE LET profit == entry_price - current_price
             new_sl == current_price + stop_levels.trailing_distance
         IN  IF profit >= stop_levels.trailing_activation /\ new_sl < current_sl
             THEN Some(new_sl)
             ELSE None

(***************************************************************************)
(* position_sizer.calculate_lot.  The scale factor is kept in thousandths; *)
(* the logarithm is read from a table of its values, in thousandths, at    *)
(* the ratios pred_abs / threshold the inputs produce.  An ATR of NaN is   *)
(* None.                                                                   *)
(***************************************************************************)
ScaleUnit == 1000

\* 0.5 * np.log1p(pred_abs / threshold - 1), in thousandths
HalfLog1p(pred_abs, threshold) ==
    CASE pred_abs = threshold -> 0
      [] 5 * pred_abs = 6 * threshold -> 91
      [] pred_abs = 2 * threshold -> 347
      [] pred_abs = 3 * threshold -> 549
      [] pred_abs = 10 * threshold -> 1151

\* the lot num / den (in hundredths, den > 0) clamped and rounded:
\* round(max(min_lot, min(max_lot, lot)), 2)
ClampRound(num, den, cfg) ==
    IF num \div den >= cfg.max_lot THEN Max(cfg.min_lot, cfg.max_lot)
    ELSE IF (num + den - 1) \div den <= cfg.min_lot THEN cfg.min_lot
    ELSE RoundHalfEven(num, den)

\* calculate_lot that rounds the scaled lot without clamping it
CalculateLotNoClamp(prediction, bal, atr, pt, cfg) ==
    LET sl_distance == IF atr = None THEN None ELSE Some(atr[1] * cfg.atr_sl_multiplier)
        pred_abs == Abs(prediction)
        threshold == cfg.min_prediction_threshold
    IN  IF sl_distance = None \/ sl_distance[1] <= 0 THEN cfg.min_lot
        ELSE IF pred_abs <= threshold THEN 0
        ELSE RoundHalfEven(bal * cfg.max_risk_per_trade
                               * Min(ScaleUnit + HalfLog1p(pred_abs, threshold), 2 * ScaleUnit),
                           sl_distance[1] * ContractSize * ScaleUnit)

\* calculate_lot with the SL-distance fallback dropped for small predictions:
\* the threshold test comes first
CalculateLotThresholdFirst(prediction, bal, atr, pt, cfg) ==
    LET sl_distance == IF atr = None THEN None ELSE Some(atr[1] * cfg.atr_sl_multiplier)
        pred_abs == Abs(prediction)
        threshold == cfg.min_prediction_threshold
    IN  IF pred_abs <= threshold THEN 0
        ELSE IF sl_distance = None \/ sl_distance[1] <= 0 THEN cfg.min_lot
        ELSE ClampRound(bal * cfg.max_risk_per_trade
                            * Min(ScaleUnit + HalfLog1p(pred_abs, threshold), 2 * ScaleUnit),
                        sl_distance[1] * ContractSize * ScaleUnit, cfg)

CalculateLot(prediction, bal, atr, pt, cfg) ==
    LET risk_amount == bal * cfg.max_risk_per_trade
        sl_distance == IF atr = None THEN None ELSE Some(atr[1] * cfg.atr_sl_multiplier)
        pred_abs == Abs(prediction)
        threshold == cfg.min_prediction_threshold
    IN  IF sl_distance = None \/ sl_distance[1] <= 0 THEN cfg.min_lot
        ELSE IF pred_abs <= threshold THEN 0
        ELSE LET scale == Min(ScaleUnit + HalfLog1p(pred_abs, threshold), 2 * ScaleUnit)
             IN  ClampRound(risk_amount * scale,
                            sl_distance[1] * ContractSize * ScaleUnit, cfg)

(***************************************************************************)
(* stop_manager.calculate_stops.  The adjustment factors are multiples of  *)
(* 1/200, so the four returned levels are kept multiplied by StopScale.    *)
(***************************************************************************)
StopScale == 200

\* pred_scale = min(pred_abs / 0.001, 2.0), in tenths
PredScale(prediction) == Min(Abs(prediction), 20)

\* calculate_stops with the buy levels on either side
CalculateStopsBuyOnly(side, entry_price, prediction, atr, cfg) ==
    LET atr_sl == atr * cfg.atr_sl_multiplier
        atr_tp == atr * cfg.atr_tp_multiplier
    IN  [ sl |-> entry_price * StopScale - atr_sl * (StopScale - PredScale(prediction)),
          tp |-> entry_price * StopScale + atr_tp * (StopScale + 2 * PredScale(prediction)),
          trailing_activation |-> atr * cfg.trailing_activation_atr * StopScale,
          trailing_distance |-> atr * cfg.trailing_atr_multiplier * StopScale ]

CalculateStops(side, entry_price, prediction, atr, cfg) ==
    LET atr_sl == atr * cfg.atr_sl_multiplier
        atr_tp == atr * cfg.atr_tp_multiplier
        \* tp_adj = 1.0 + 0.1 * pred_scale and sl_adj = 1.0 - 0.05 * pred_scale,
        \* both times StopScale
        tp_adj == StopScale + 2 * PredScale(prediction)
        sl_adj == StopScale - PredScale(prediction)
        adjusted_sl == atr_sl * sl_adj
        adjusted_tp == atr_tp * tp_adj
        trailing_activation == atr * cfg.trailing_activation_atr * StopScale
        trailing_distance == atr * cfg.trailing_atr_multiplier * StopScale
    IN  IF side = "buy"
        THEN [ sl |-> entry_price * StopScale - adjusted_sl,
               tp |-> entry_price * StopScale + adjusted_tp,
               trailing_activation |-> trailing_activation,
               trailing_distance |-> trailing_distance ]
        ELSE [ sl |-> entry_price * StopScale + adjusted_sl,
               tp |-> entry_price * StopScale - adjusted_tp,
               trailing_activation |-> trailing_activation,
               trailing_distance |-> trailing_distance ]

(***************************************************************************)
(* signal.generate_signal.  Its settings are the trading / risk record     *)
(* (core) with min_confidence and the market_filter section; confidences   *)
(* are percentages.  The result is a TradeSignal (kind "signal") or the    *)
(* exception the call raises (kind "raise").                               *)
(***************************************************************************)
\* the parameters of calculate_lot
CalculateLotParams == {"prediction", "balance", "atr", "point", "settings"}

\* the keyword arguments of the calculate_lot call in generate_signal
CalculateLotKeywords == {"confidence"}

\* _make_hold
MakeHold ==
    [ kind |-> "signal", action |-> "hold", lot |-> 0, sl |-> 0, tp |-> 0,
      trailing_activation |-> 0, trailing_distance |-> 0 ]

\* the session test with every hour inside a session
InSessionAlways(hour) == TRUE

\* in_london or in_ny
InSession(hour) == (7 <= hour /\ hour < 16) \/ (13 <= hour /\ hour < 22)

\* the ATR% filter: atr_pct = atr / current_price * 100 below 0.02 or above 0.5
AtrPctGate(current_price, atr) ==
    /\ current_price > 0
    /\ atr # None
    /\ atr[1] > 0
    /\ \/ atr[1] * 5000 < current_price
       \/ atr[1] * 200 > current_price

\* the market-environment filters
MarketFilterGate(a) ==
    LET mf == a.settings.market_filter
    IN  /\ mf.enabled
        /\ \/ a.regime = "ranging"
           \/ a.spread_pips > mf.max_spread_pips
           \/ AtrPctGate(a.current_price, a.atr)
           \/ (mf.session_only /\ a.current_hour_utc # None
                  /\ ~InSession(a.current_hour_utc[1]))

GenerateSignal(a) ==
    LET threshold == a.settings.core.min_prediction_threshold
        min_confidence == a.settings.min_confidence
        side == IF a.prediction > 0 THEN "buy" ELSE "sell"
    IN  IF MarketFilterGate(a) THEN MakeHold
        ELSE IF a.confidence < min_confidence THEN MakeHold
        ELSE IF Abs(a.prediction) < threshold THEN MakeHold
        ELSE IF ~(CalculateLotKeywords \subseteq CalculateLotParams)
        THEN [kind |-> "raise", exception |-> "TypeError"]
        ELSE LET lot == CalculateLot(a.prediction, a.balance, a.atr, a.point,
                                     a.settings.core)
             IN  IF lot <= 0 THEN MakeHold
                 ELSE LET stops == CalculateStops(side, a.current_price, a.prediction,
                                                  a.atr[1], a.settings.core)
                      IN  [ kind |-> "signal", action |-> side, lot |-> lot,
                            sl |-> stops.sl, tp |-> stops.tp,
                            trailing_activation |-> stops.trailing_activation,
                            trailing_distance |-> stops.trailing_distance ]

(***************************************************************************)
(* run_wfo: the windows and the slices.  A timestamp is a number of ticks, *)
(* a day is TicksPerDay ticks.                                             *)
(***************************************************************************)
TicksPerDay == 50
MaxFolds == 6

\* len(train_data) < 100
MinTrainRows == 100
\* len(test_data) < 10
MinTestRows == 10

\* pd.Timedelta(days=k)
Days(k) == k * TicksPerDay

\* (end - start).days
SpanDays(start, end) == (end - start) \div TicksPerDay

\* the automatic adjustment of the windows to a short data span
AdjustWindows(data_span_days, tw, sw) ==
    IF data_span_days < tw + sw
    THEN LET t == (data_span_days * 7) \div 10
         IN  [train_days |-> t, test_days |-> data_span_days - t]
    ELSE [train_days |-> tw, test_days |-> sw]

\* feature_matrix[a:b]: label slicing of a DatetimeIndex, both ends included
Slice(idx, a, b) == SelectSeq(idx, LAMBDA t : a <= t /\ t <= b)

\* rows.iloc[:-h] without the purge
DropLastNothing(rows, h) == rows

\* rows.iloc[:-h] for h >= 0 (rows[:-0] is rows[:0], the empty frame)
DropLast(rows, h) ==
    IF h = 0 THEN <<>> ELSE SubSeq(rows, 1, Max(Len(rows) - h, 0))

TrainSlice(idx, cur, trd, h) == DropLast(Slice(idx, cur - Days(trd), cur), h)

TestSlice(idx, cur, tsd) == Slice(idx, cur, cur + Days(tsd))

\* prepare_dataset: the rows whose target close.shift(-horizon) is not NaN
\* (build_feature_matrix leaves no NaN feature)
XTrainLen(train, h) == Max(Len(train) - h, 0)

\* build_target: the timestamp of the close that the target of row k reads
TargetRef(train, k, h) == train[k + h]

\* cursor += Timedelta(days=test_days), advancing by half a window only
NextCursorHalfStep(cur, tsd) == cur + Days(tsd) \div 2

\* cursor += pd.Timedelta(days=test_days)
NextCursor(cur, tsd) == cur + Days(tsd)

LoopCondition(cur, tsd, idx) == cur + Days(tsd) <= idx[Len(idx)]

\* the skip test without the length of the test slice
FoldSkippedTrainOnly(train, test, h) ==
    \/ Len(train) < MinTrainRows
    \/ XTrainLen(train, h) < MinTrainRows

FoldSkipped(train, test, h) ==
    \/ Len(train) < MinTrainRows
    \/ Len(test) < MinTestRows
    \/ XTrainLen(train, h) < MinTrainRows

\* the bars 0..last, one per tick, without those of the gap
MakeIndex(last, gap) ==
    SelectSeq([k \in 1..(last + 1) |-> k - 1], LAMBDA t : ~(gap.from <= t /\ t <= gap.to))

NoGap == [from |-> 1, to |-> 0]
Weekend == [from |-> Days(4) + 5, to |-> Days(5) - 1]

IndexChoices ==
    { MakeIndex(last, gap) : last \in {0, 20, Days(2), Days(5), Days(7)},
                             gap \in {NoGap, Weekend} }

\* (train_window_days, test_window_days)
WindowChoices == { <<3, 1>>, <<3, 2>>, <<180, 30>> }

HorizonChoices == {0, 1, 6}

(***************************************************************************)
(* metrics.calc_max_drawdown and the part of calc_all_metrics that the     *)
(* walk-forward result carries.  The equity values are non-negative.  A    *)
(* quotient of two floats is the exact fraction <<[num, den]>> with        *)
(* den > 0; a negative number divided by zero, -inf, has den = 0; zero     *)
(* divided by zero, NaN, is None.                                          *)
(***************************************************************************)
\* equity.cummax(): the running maximum, computed by halves (the peaks of
\* the second half are those of that half raised to the last peak of the first)
RECURSIVE CumMax(_)
CumMax(eq) ==
    IF Len(eq) <= 1 THEN eq
    ELSE LET h == Len(eq) \div 2
             left == CumMax(SubSeq(eq, 1, h))
             right == CumMax(SubSeq(eq, h + 1, Len(eq)))
         IN  left \o [k \in 1..Len(right) |-> Max(left[h], right[k])]

\* dd = equity - peak
Drawdown(eq) == LET peak == CumMax(eq) IN [t \in 1..Len(eq) |-> eq[t] - peak[t]]

\* the float division x / y for x <= 0 <= y
Divide(x, y) == IF x = 0 /\ y = 0 THEN None ELSE Some([num |-> x, den |-> y])

\* dd_pct = dd / peak
DrawdownPct(eq) ==
    LET peak == CumMax(eq) IN [t \in 1..Len(eq) |-> Divide(eq[t] - peak[t], peak[t])]

\* a <= b for two quotients that are not NaN (-inf is below every other one)
FracLeq(a, b) == a.num * b.den <= b.num * a.den

FracEq(a, b) == FracLeq(a, b) /\ FracLeq(b, a)

\* Series.min() of a non-empty series of numbers, computed by halves
RECURSIVE SeqMin(_)
SeqMin(xs) ==
    IF Len(xs) = 1 THEN xs[1]
    ELSE LET h == Len(xs) \div 2
         IN  Min(SeqMin(SubSeq(xs, 1, h)), SeqMin(SubSeq(xs, h + 1, Len(xs))))

\* Series.min() of a non-empty series of quotients, computed by halves; NaN
\* entries are skipped and the minimum of NaN entries only is NaN
RECURSIVE FracMin(_)
FracMin(fs) ==
    IF Len(fs) = 1 THEN fs[1]
    ELSE LET h == Len(fs) \div 2
             a == FracMin(SubSeq(fs, 1, h))
             b == FracMin(SubSeq(fs, h + 1, Len(fs)))
         IN  IF a = None THEN b
             ELSE IF b = None THEN a
             ELSE IF FracLeq(a[1], b[1]) THEN a ELSE b

CalcMaxDrawdown(eq) == [dd_abs |-> SeqMin(Drawdown(eq)), dd_pct |-> FracMin(DrawdownPct(eq))]

\* the empty dict
EmptyDict == <<>>

\* calc_all_metrics, the keys total_pnl, max_drawdown and num_trades
CalcAllMetrics(equity, trs) ==
    LET values == [k \in 1..Len(equity) |-> equity[k].value]
    IN  [ total_pnl |-> values[Len(values)] - values[1],
          max_drawdown |-> SeqMin(Drawdown(values)),
          num_trades |-> Len(trs) ]

(***************************************************************************)
(* engine.run(test_data, predictions) as run_wfo calls it on a fold: the   *)
(* whole bar loop and the liquidation, with the default point.  The bar at *)
(* tick t carries the row WfoRow(t); the fold's model predicts the same    *)
(* value on every bar.                                                     *)
(***************************************************************************)
RowCycle ==
    << [close |-> 2000, high |-> 2000, low |-> 2000, atr |-> Some(500)],
       [close |-> 3000, high |-> 3000, low |-> 3000, atr |-> Some(500)],
       [close |-> 2000, high |-> 3000, low |-> 1000, atr |-> None],
       [close |-> 3000, high |-> 4000, low |-> 3000, atr |-> Some(500)],
       [close |-> 2000, high |-> 2000, low |-> 2000, atr |-> None],
       [close |-> 3000, high |-> 3000, low |-> 3000, atr |-> None] >>

WfoRow(t) == RowCycle[(t % Len(RowCycle)) + 1]

FoldPredictions == {-6, 0, 6}

\* pd.concat of a list of series or frames
RECURSIVE Concat(_)
Concat(ss) == IF ss = <<>> THEN <<>> ELSE Head(ss) \o Concat(Tail(ss))

\* the bar loop up to bar hi, evaluated by halves; the next bar i is the one
\* after the equity points recorded so far
RECURSIVE RunBars(_, _, _, _, _, _)
RunBars(st, times, hi, pred, cfg, pt) ==
    LET i == Len(st.equity_series) + 1
    IN  IF i > hi THEN st
        ELSE IF i = hi
        THEN EngineBar(st, WfoRow(times[i]), times[i], Some(pred), cfg, pt)
        ELSE RunBars(RunBars(st, times, (i + hi) \div 2, pred, cfg, pt),
                     times, hi, pred, cfg, pt)

\* EngineRun that starts from the balance the earlier folds ended with
EngineRunCarried(times, pred, cfg, pt) ==
    LET st0 == [balance |-> cfg.initial_balance + SumSeq(MapPnl(Concat(all_trades))),
                positions |-> <<>>, trades |-> <<>>, equity_series |-> <<>>]
        st == RunBars(st0, times, Len(times), pred, cfg, pt)
        final_time == times[Len(times)]
        ended == EndTrades(st.positions, WfoRow(final_time).close, final_time,
                           Spread(cfg, pt))
    IN  [equity |-> st.equity_series, trades |-> st.trades \o ended]

EngineRun(times, pred, cfg, pt) ==
    LET st0 == [balance |-> cfg.initial_balance, positions |-> <<>>,
                trades |-> <<>>, equity_series |-> <<>>]
        st == RunBars(st0, times, Len(times), pred, cfg, pt)
        final_time == times[Len(times)]
        ended == EndTrades(st.positions, WfoRow(final_time).close, final_time,
                           Spread(cfg, pt))
    IN  [equity |-> st.equity_series, trades |-> st.trades \o ended]

EquityTimes(equity) == [k \in 1..Len(equity) |-> equity[k].time]


(***************************************************************************)
(* Each specification below runs one component and leaves the variables of *)
(* the others at these values.                                             *)
(***************************************************************************)
MonIdle ==
    /\ tl_rows = <<>>
    /\ mon_cfg = None
    /\ mon_result = None
    /\ mon_last = "none"

TWIdle ==
    /\ tw_pc = "idle"
    /\ running = TRUE
    /\ tw_models = FALSE
    /\ tw_cycles = 0
    /\ tw_ops = 0
    /\ tw_wait = 0
    /\ tw_emitted = <<>>
    /\ tw_stop_cycles = None
    /\ tw_late_sleeps = 0

BTIdle ==
    /\ settings = MakeSettings(1, 0)
    /\ point = 1
    /\ num_predictions = 0
    /\ feature_matrix = <<>>
    /\ predictions = <<>>
    /\ bt_pc = "idle"
    /\ balance = 0
    /\ positions = <<>>
    /\ trades = <<>>
    /\ equity_series = <<>>
    /\ opened = <<>>

TSIdle ==
    /\ ts_side = "buy"
    /\ ts_entry_price = 0
    /\ ts_stops = [sl |-> 0, tp |-> 0, trailing_activation |-> 0, trailing_distance |-> 0]
    /\ ts_current_sl = 0
    /\ ts_price = None
    /\ ts_result = None
    /\ ts_calls = 0

WFOIdle ==
    /\ wfo_pc = "idle"
    /\ index = <<>>
    /\ horizon = 0
    /\ train_days = 0
    /\ test_days = 0
    /\ cursor = 0
    /\ fold_num = 0
    /\ folds = <<>>
    /\ train_data = <<>>
    /\ test_data = <<>>
    /\ all_equities = <<>>
    /\ all_trades = <<>>
    /\ combined_equity = <<>>
    /\ combined_trades = <<>>
    /\ overall_metrics = <<>>

FNIdle ==
    /\ dd_equity = None
    /\ dd_result = None
    /\ cl_args = None
    /\ cl_result = None
    /\ cs_args = None
    /\ cs_result = None
    /\ gs_args = None
    /\ gs_result = None

(***************************************************************************)
(* The backtest as a state machine: one action per bar, one for the part   *)
(* after the loop.  The matrix is read row by row; BTFinish is the run on  *)
(* a matrix that has exactly the rows read so far.                         *)
(***************************************************************************)
BTInit ==
    /\ MonIdle
    /\ TWIdle
    /\ TSIdle
    /\ WFOIdle
    /\ FNIdle
    /\ settings \in SettingsChoices
    /\ point = 1
    /\ num_predictions \in {1, MaxBars}
    /\ feature_matrix = <<>>
    /\ predictions = <<>>
    /\ bt_pc = "loop"
    /\ balance = settings.initial_balance
    /\ positions = <<>>
    /\ trades = <<>>
    /\ equity_series = <<>>
    /\ opened = <<>>

BTBar(row, p) ==
    /\ bt_pc = "loop"
    /\ Len(feature_matrix) < MaxBars
    /\ LET i == Len(feature_matrix)
           time == i + 1
           pred == IF i < num_predictions THEN Some(p) ELSE None
           st == [balance |-> balance, positions |-> positions,
                  trades |-> trades, equity_series |-> equity_series]
           nx == EngineBar(st, row, time, pred, settings, point)
       IN  /\ feature_matrix' = Append(feature_matrix, row)
           /\ predictions' = IF pred # None THEN Append(predictions, p) ELSE predictions
           /\ balance' = nx.balance
           /\ positions' = nx.positions
           /\ trades' = nx.trades
           /\ equity_series' = nx.equity_series
           /\ opened' = IF nx.entered THEN Append(opened, time) ELSE opened
    /\ UNCHANGED <<settings, point, num_predictions, bt_pc, tsVars, wfoVars, fnVars, monVars, twVars>>

BTFinish ==
    /\ bt_pc = "loop"
    /\ Len(feature_matrix) >= 1
    /\ LET final_close == feature_matrix[Len(feature_matrix)].close
           final_time == Len(feature_matrix)
           ended == EndTrades(positions, final_close, final_time, Spread(settings, point))
       IN  /\ balance' = balance + SumSeq(MapPnl(ended))
           /\ trades' = trades \o ended
    /\ bt_pc' = "done"
    /\ UNCHANGED <<settings, point, num_predictions, feature_matrix, predictions,
                   positions, equity_series, opened, tsVars, wfoVars, fnVars, monVars, twVars>>

\* feature_matrix["close"].iloc[-1] on an empty matrix: IndexError
BTRaise ==
    /\ bt_pc = "loop"
    /\ Len(feature_matrix) = 0
    /\ bt_pc' = "raised"
    /\ UNCHANGED <<settings, point, num_predictions, feature_matrix, predictions,
                   balance, positions, trades, equity_series, opened, tsVars, wfoVars, fnVars, monVars, twVars>>

BTNext ==
    \/ \E row \in Rows, p \in PredValues : BTBar(row, p)
    \/ BTFinish
    \/ BTRaise

SpecBT == BTInit /\ [][BTNext]_vars

(***************************************************************************)
(* A sequence of update_trailing_stop calls for one position: each call    *)
(* gets the stop in force as current_sl, and a non-null result replaces it.*)
(***************************************************************************)
MaxCalls == 3

TSPrices == 5..15

\* the SL a position starts with
InitialSl(side, entry_price) == IF side = "buy" THEN entry_price - 4 ELSE entry_price + 4

\* (trailing_activation, trailing_distance) of a call: atr times the multipliers
TrailingChoices == { <<0, 1>>, <<0, 3>>, <<2, 1>>, <<2, 3>> }

TSInit ==
    /\ MonIdle
    /\ TWIdle
    /\ BTIdle
    /\ WFOIdle
    /\ FNIdle
    /\ ts_side \in {"buy", "sell"}
    /\ ts_entry_price = 10
    /\ ts_current_sl = InitialSl(ts_side, ts_entry_price)
    /\ ts_stops = [sl |-> ts_current_sl,
                   tp |-> IF ts_side = "buy" THEN ts_entry_price + 6 ELSE ts_entry_price - 6,
                   trailing_activation |-> 0, trailing_distance |-> 0]
    /\ ts_price = None
    /\ ts_result = None
    /\ ts_calls = 0

\* one call as the trading loop makes it: the stop levels are rebuilt from the
\* position's SL and the bar's ATR, and a non-null result becomes the SL
TSUpdate(current_price, tr) ==
    /\ ts_calls < MaxCalls
    /\ LET stops == [sl |-> ts_current_sl, tp |-> ts_stops.tp,
                     trailing_activation |-> tr[1], trailing_distance |-> tr[2]]
           new_sl == UpdateTrailingStop(ts_side, current_price, ts_entry_price,
                                        ts_current_sl, stops)
       IN  /\ ts_stops' = stops
           /\ ts_result' = new_sl
           /\ ts_current_sl' = IF new_sl # None THEN new_sl[1] ELSE ts_current_sl
    /\ ts_price' = Some(current_price)
    /\ ts_calls' = ts_calls + 1
    /\ UNCHANGED <<ts_side, ts_entry_price, btVars, wfoVars, fnVars, monVars, twVars>>

TSNext == \E current_price \in TSPrices, tr \in TrailingChoices : TSUpdate(current_price, tr)

SpecTS == TSInit /\ [][TSNext]_vars

(***************************************************************************)
(* run_wfo as a state machine: WFOInit is the call with its feature matrix *)
(* and the configured windows, WFOSetup the part before the loop, then one *)
(* action per loop iteration (a skipped or a recorded fold) and one for    *)
(* the part after the loop.  A fold record keeps, beside the boundaries of *)
(* WFOFold, the timestamps of its two slices.                              *)
(***************************************************************************)
WFOInit ==
    /\ MonIdle
    /\ TWIdle
    /\ BTIdle
    /\ TSIdle
    /\ FNIdle
    /\ wfo_pc = "start"
    /\ index \in IndexChoices \cup {<<>>}
    /\ horizon \in HorizonChoices
    /\ \E w \in WindowChoices :
          /\ train_days = w[1]
          /\ test_days = w[2]
    /\ cursor = 0
    /\ fold_num = 0
    /\ folds = <<>>
    /\ train_data = <<>>
    /\ test_data = <<>>
    /\ all_equities = <<>>
    /\ all_trades = <<>>
    /\ combined_equity = <<>>
    /\ combined_trades = <<>>
    /\ overall_metrics = EmptyDict

\* start, end, the adjustment of the windows and the first cursor
WFOSetup ==
    /\ wfo_pc = "start"
    /\ index # <<>>
    /\ LET adj == AdjustWindows(SpanDays(index[1], index[Len(index)]), train_days, test_days)
       IN  /\ train_days' = adj.train_days
           /\ test_days' = adj.test_days
           /\ cursor' = index[1] + Days(adj.train_days)
    /\ wfo_pc' = "loop"
    /\ UNCHANGED <<index, horizon, fold_num, folds, train_data, test_data, all_equities,
                   all_trades, combined_equity, combined_trades, overall_metrics,
                   btVars, tsVars, fnVars, monVars, twVars>>

\* feature_matrix.index[0] on a matrix without rows: IndexError
WFORaise ==
    /\ wfo_pc = "start"
    /\ index = <<>>
    /\ wfo_pc' = "raised"
    /\ UNCHANGED <<index, horizon, train_days, test_days, cursor, fold_num, folds,
                   train_data, test_data, all_equities, all_trades, combined_equity,
                   combined_trades, overall_metrics, btVars, tsVars, fnVars, monVars, twVars>>

\* an iteration that takes one of the two `continue` branches
WFOSkipFold ==
    /\ wfo_pc = "loop"
    /\ fold_num < MaxFolds
    /\ LoopCondition(cursor, test_days, index)
    /\ LET train == TrainSlice(index, cursor, train_days, horizon)
           test == TestSlice(index, cursor, test_days)
       IN  /\ FoldSkipped(train, test, horizon)
           /\ train_data' = train
           /\ test_data' = test
    /\ fold_num' = fold_num + 1
    /\ cursor' = NextCursor(cursor, test_days)
    /\ UNCHANGED <<wfo_pc, index, horizon, train_days, test_days, folds, all_equities,
                   all_trades, combined_equity, combined_trades, overall_metrics,
                   btVars, tsVars, fnVars, monVars, twVars>>

\* an iteration that trains, backtests the test slice and records the fold
WFORecordFold(pred) ==
    /\ wfo_pc = "loop"
    /\ fold_num < MaxFolds
    /\ LoopCondition(cursor, test_days, index)
    /\ LET train == TrainSlice(index, cursor, train_days, horizon)
           test == TestSlice(index, cursor, test_days)
           bt_result == EngineRun(test, pred, settings, point)
       IN  /\ ~FoldSkipped(train, test, horizon)
           /\ train_data' = train
           /\ test_data' = test
           /\ folds' = Append(folds, [ fold_num |-> fold_num + 1,
                                       train_start |-> cursor - Days(train_days),
                                       train_end |-> cursor,
                                       test_start |-> cursor,
                                       test_end |-> cursor + Days(test_days),
                                       train_times |-> train,
                                       test_times |-> test,
                                       test_metrics |-> CalcAllMetrics(bt_result.equity,
                                                                       bt_result.trades),
                                       num_trades |-> Len(bt_result.trades) ])
           /\ all_equities' = Append(all_equities, bt_result.equity)
           /\ all_trades' = IF bt_result.trades # <<>>
                            THEN Append(all_trades, bt_result.trades)
                            ELSE all_trades
    /\ fold_num' = fold_num + 1
    /\ cursor' = NextCursor(cursor, test_days)
    /\ UNCHANGED <<wfo_pc, index, horizon, train_days, test_days, combined_equity,
                   combined_trades, overall_metrics, btVars, tsVars, fnVars, monVars, twVars>>

\* the part after the loop: the combined equity, trades and metrics
WFOFinish ==
    /\ wfo_pc = "loop"
    /\ ~LoopCondition(cursor, test_days, index)
    /\ combined_equity' = IF all_equities # <<>> THEN Concat(all_equities) ELSE <<>>
    /\ combined_trades' = IF all_trades # <<>> THEN Concat(all_trades) ELSE <<>>
    /\ overall_metrics' =
          IF combined_equity' # <<>>
          THEN CalcAllMetrics(combined_equity', combined_trades')
          ELSE EmptyDict
    /\ wfo_pc' = "done"
    /\ UNCHANGED <<index, horizon, train_days, test_days, cursor, fold_num, folds,
                   train_data, test_data, all_equities, all_trades, btVars, tsVars, fnVars, monVars, twVars>>

WFONext ==
    \/ WFOSetup
    \/ WFORaise
    \/ WFOSkipFold
    \/ \E pred \in FoldPredictions : WFORecordFold(pred)
    \/ WFOFinish

SpecWFO == WFOInit /\ [][WFONext]_vars

(***************************************************************************)
(* calc_max_drawdown as a call: DDInit holds the argument, DDCall is the   *)
(* call.                                                                   *)
(***************************************************************************)
MaxEquityLen == 3

EquityValues == {0, 95, 100, 110}

\* the equity of tests/test_backtest.py
FixedEquity == <<100, 110, 105, 95, 100, 115>>

EquityChoices ==
    UNION { [1..n -> EquityValues] : n \in 1..MaxEquityLen } \cup {FixedEquity}

DDInit ==
    /\ MonIdle
    /\ TWIdle
    /\ BTIdle
    /\ TSIdle
    /\ WFOIdle
    /\ dd_equity \in {Some(e) : e \in EquityChoices}
    /\ dd_result = None
    /\ cl_args = None
    /\ cl_result = None
    /\ cs_args = None
    /\ cs_result = None
    /\ gs_args = None
    /\ gs_result = None

DDCall ==
    /\ dd_equity # None
    /\ dd_result = None
    /\ dd_result' = Some(CalcMaxDrawdown(dd_equity[1]))
    /\ UNCHANGED <<dd_equity, cl_args, cl_result, cs_args, cs_result, gs_args, gs_result,
                   btVars, tsVars, wfoVars, monVars, twVars>>

DDNext == DDCall

SpecDD == DDInit /\ [][DDNext]_vars

(***************************************************************************)
(* calculate_lot as a call.                                                *)
(***************************************************************************)
LotPredictions == {-50, -6, 0, 3, 5, 6, 10, 15}

LotBalances == {-100000, 0, 100000, 240000}

LotAtrs == {None, Some(-1), Some(0), Some(1), Some(2)}

\* the default lots, a low max_lot, and min_lot above max_lot
LotSettings ==
    { MakeSettings(1, 0),
      [MakeSettings(1, 0) EXCEPT !.max_lot = 3],
      [MakeSettings(1, 0) EXCEPT !.min_lot = 4, !.max_lot = 3] }

CLInit ==
    /\ MonIdle
    /\ TWIdle
    /\ BTIdle
    /\ TSIdle
    /\ WFOIdle
    /\ dd_equity = None
    /\ dd_result = None
    /\ cl_args \in { Some([prediction |-> p, balance |-> b, atr |-> a, point |-> 1,
                           settings |-> c]) :
                         p \in LotPredictions, b \in LotBalances, a \in LotAtrs,
                         c \in LotSettings }
    /\ cl_result = None
    /\ cs_args = None
    /\ cs_result = None
    /\ gs_args = None
    /\ gs_result = None

CLCall ==
    /\ cl_args # None
    /\ cl_result = None
    /\ LET a == cl_args[1]
       IN  cl_result' = Some(CalculateLot(a.prediction, a.balance, a.atr, a.point, a.settings))
    /\ UNCHANGED <<dd_equity, dd_result, cl_args, cs_args, cs_result, gs_args, gs_result,
                   btVars, tsVars, wfoVars, monVars, twVars>>

CLNext == CLCall

SpecCL == CLInit /\ [][CLNext]_vars

(***************************************************************************)
(* generate_signal as a call.                                              *)
(***************************************************************************)
SignalPredictions == {-6, 3, 5, 6}

SignalPrices == {1000, 10000}

\* with SignalPrices: ATR% of 0, 0.01, 0.02, 0.05, 0.1, 0.2, 0.5, 5 and 50
SignalAtrs == {None, Some(0), Some(1), Some(2), Some(5), Some(500)}

SignalConfidences == {30, 100}

SignalSpreads == {0, 4}

SignalHours == {None, Some(6), Some(7), Some(21), Some(22)}

SignalRegimes == {"trend_up", "ranging"}

\* market_filter: disabled (the default), enabled, enabled with session_only
MarketFilters ==
    { [enabled |-> FALSE, max_spread_pips |-> 3, session_only |-> FALSE],
      [enabled |-> TRUE, max_spread_pips |-> 3, session_only |-> FALSE],
      [enabled |-> TRUE, max_spread_pips |-> 3, session_only |-> TRUE] }

SignalSettings ==
    { [core |-> MakeSettings(1, 0), min_confidence |-> mc, market_filter |-> mf] :
        mc \in {0, 50}, mf \in MarketFilters }

GSInit ==
    /\ MonIdle
    /\ TWIdle
    /\ BTIdle
    /\ TSIdle
    /\ WFOIdle
    /\ dd_equity = None
    /\ dd_result = None
    /\ cl_args = None
    /\ cl_result = None
    /\ cs_args = None
    /\ cs_result = None
    /\ gs_args \in { Some([prediction |-> p, current_price |-> cp, atr |-> a,
                           balance |-> 240000, point |-> 1, settings |-> c,
                           confidence |-> cf, spread_pips |-> sp,
                           current_hour_utc |-> h, regime |-> rg]) :
                         p \in SignalPredictions, cp \in SignalPrices, a \in SignalAtrs,
                         c \in SignalSettings, cf \in SignalConfidences,
                         sp \in SignalSpreads, h \in SignalHours, rg \in SignalRegimes }
    /\ gs_result = None

GSCall ==
    /\ gs_args # None
    /\ gs_result = None
    /\ gs_result' = Some(GenerateSignal(gs_args[1]))
    /\ UNCHANGED <<dd_equity, dd_result, cl_args, cl_result, cs_args, cs_result, gs_args,
                   btVars, tsVars, wfoVars, monVars, twVars>>

GSNext == GSCall

SpecGS == GSInit /\ [][GSNext]_vars

(***************************************************************************)
(* calculate_stops as a call.                                              *)
(***************************************************************************)
StopSides == {"buy", "sell"}

StopEntryPrices == {1000, 2000}

StopPredictions == {-50, -6, 0, 6, 10, 50}

StopAtrs == {-1, 0, 1, 500}

\* the default multipliers, and a tight SL with a far trailing stop
StopSettings ==
    { MakeSettings(1, 0),
      [MakeSettings(1, 0) EXCEPT !.atr_sl_multiplier = 1, !.atr_tp_multiplier = 1,
                                 !.trailing_atr_multiplier = 3,
                                 !.trailing_activation_atr = 2] }

CSInit ==
    /\ MonIdle
    /\ TWIdle
    /\ BTIdle
    /\ TSIdle
    /\ WFOIdle
    /\ dd_equity = None
    /\ dd_result = None
    /\ cl_args = None
    /\ cl_result = None
    /\ cs_args \in { Some([side |-> sd, entry_price |-> e, prediction |-> p, atr |-> a,
                           settings |-> c]) :
                         sd \in StopSides, e \in StopEntryPrices, p \in StopPredictions,
                         a \in StopAtrs, c \in StopSettings }
    /\ cs_result = None
    /\ gs_args = None
    /\ gs_result = None

CSCall ==
    /\ cs_args # None
    /\ cs_result = None
    /\ LET a == cs_args[1]
       IN  cs_result' = Some(CalculateStops(a.side, a.entry_price, a.prediction, a.atr,
                                            a.settings))
    /\ UNCHANGED <<dd_equity, dd_result, cl_args, cl_result, cs_args, gs_args, gs_result,
                   btVars, tsVars, wfoVars, monVars, twVars>>

CSNext == CSCall

SpecCS == CSInit /\ [][CSNext]_vars

(***************************************************************************)
(* TradeLogger and ModelMonitor.  The trades table is the sequence of its  *)
(* rows in id order; a row keeps the columns the monitor depends on:       *)
(* ticket, exit_price and pnl (None is SQL NULL).  A pnl of NaN is stored  *)
(* as NULL by SQLite.  min_win_rate is a percentage, min_sharpe a fraction *)
(* [num, den] with den > 0; the Sharpe ratio mean / std of n values with   *)
(* sum S and sum of squares Q equals S / sqrt(n * Q - S * S) and is kept   *)
(* as [num |-> S, sq |-> n * Q - S * S].                                   *)
(***************************************************************************)
MaxLogRows == 4

PnlValues == {-3, 0, 2}

\* (monitor_window, min_win_rate, min_sharpe)
MonitorConfigs ==
    { [window |-> 2, min_win_rate |-> 40, min_sharpe |-> [num |-> 0, den |-> 1]],
      [window |-> 3, min_win_rate |-> 40, min_sharpe |-> [num |-> 0, den |-> 1]],
      [window |-> 2, min_win_rate |-> 50, min_sharpe |-> [num |-> 1, den |-> 2]] }

\* INSERT INTO trades: a TradeRecord with the exit columns at their defaults
LogEntry(rows, ticket) ==
    Append(rows, [ticket |-> ticket, exit_price |-> None, pnl |-> None])

\* UPDATE trades SET ... WHERE ticket=? AND exit_price IS NULL
LogExit(rows, ticket, exit_price, pnl) ==
    [k \in 1..Len(rows) |->
        IF rows[k].ticket = Some(ticket) /\ rows[k].exit_price = None
        THEN [rows[k] EXCEPT !.exit_price = Some(exit_price), !.pnl = pnl]
        ELSE rows[k]]

\* the SELECT with the rows whose pnl is NULL read as 0
RollingPnlsWithOpen(rows, window) ==
    LET all == [k \in 1..Len(rows) |-> rows[Len(rows) + 1 - k]]
    IN  [k \in 1..Min(window, Len(all)) |->
            IF all[k].pnl = None THEN 0 ELSE all[k].pnl[1]]

\* SELECT pnl FROM trades WHERE pnl IS NOT NULL ORDER BY id DESC LIMIT window
RollingPnls(rows, window) ==
    LET newest_first == [k \in 1..Len(rows) |-> rows[Len(rows) + 1 - k]]
        closed == SelectSeq(newest_first, LAMBDA r : r.pnl # None)
    IN  [k \in 1..Min(window, Len(closed)) |-> closed[k].pnl[1]]

SharpeOf(pnls) ==
    LET total == SumSeq(pnls)
        squares == SumSeq([k \in 1..Len(pnls) |-> pnls[k] * pnls[k]])
        std_sq == Len(pnls) * squares - total * total
    IN  IF std_sq > 0 THEN [num |-> total, sq |-> std_sq] ELSE [num |-> 0, sq |-> 1]

GetRollingMetrics(rows, window) ==
    LET pnls == RollingPnls(rows, window)
        count == Len(pnls)
        wins == Len(SelectSeq(pnls, LAMBDA p : p > 0))
    IN  IF pnls = <<>>
        THEN [count |-> 0, win_rate |-> [num |-> 0, den |-> 1], total_pnl |-> None,
              sharpe |-> [num |-> 0, sq |-> 1]]
        ELSE [count |-> count, win_rate |-> [num |-> wins, den |-> count],
              total_pnl |-> Some(SumSeq(pnls)), sharpe |-> SharpeOf(pnls)]

\* metrics["win_rate"] < self.min_win_rate
WinRateLess(win_rate, pct) == win_rate.num * 100 < pct * win_rate.den

\* metrics["sharpe"] < self.min_sharpe
SharpeLess(sharpe, m) ==
    LET l == sharpe.num * m.den
    IN  IF m.num = 0 THEN l < 0
        ELSE IF m.num > 0 THEN l < 0 \/ l * l < m.num * m.num * sharpe.sq
        ELSE l < 0 /\ l * l > m.num * m.num * sharpe.sq

\* ModelMonitor.check
Check(rows, cfg) ==
    LET metrics == GetRollingMetrics(rows, cfg.window)
        warnings == (IF WinRateLess(metrics.win_rate, cfg.min_win_rate)
                     THEN <<"win_rate">> ELSE <<>>) \o
                    (IF SharpeLess(metrics.sharpe, cfg.min_sharpe)
                     THEN <<"sharpe">> ELSE <<>>)
    IN  IF metrics.count < cfg.window
        THEN [healthy |-> TRUE, warnings |-> <<"count">>, metrics |-> metrics]
        ELSE [healthy |-> warnings = <<>>, warnings |-> warnings, metrics |-> metrics]

(***************************************************************************)
(* The trade log and its monitor as a state machine: entries, exits and    *)
(* checks in any order, as the trading loop and the dashboard make them.   *)
(***************************************************************************)
MonInit ==
    /\ BTIdle
    /\ TSIdle
    /\ WFOIdle
    /\ FNIdle
    /\ TWIdle
    /\ tl_rows = <<>>
    /\ mon_cfg \in MonitorConfigs
    /\ mon_result = None
    /\ mon_last = "none"

\* log_entry of an order with or without a ticket (tickets are unique)
MonLogEntry(with_ticket) ==
    /\ Len(tl_rows) < MaxLogRows
    /\ tl_rows' = LogEntry(tl_rows, IF with_ticket THEN Some(Len(tl_rows) + 1) ELSE None)
    /\ mon_last' = "log_entry"
    /\ UNCHANGED <<mon_cfg, mon_result, twVars, btVars, tsVars, wfoVars, fnVars>>

MonLogExit(ticket, pnl) ==
    /\ tl_rows' = LogExit(tl_rows, ticket, 1, pnl)
    /\ mon_last' = "log_exit"
    /\ UNCHANGED <<mon_cfg, mon_result, twVars, btVars, tsVars, wfoVars, fnVars>>

MonCheck ==
    /\ mon_result' = Some(Check(tl_rows, mon_cfg))
    /\ mon_last' = "check"
    /\ UNCHANGED <<tl_rows, mon_cfg, twVars, btVars, tsVars, wfoVars, fnVars>>

MonNext ==
    \/ \E with_ticket \in BOOLEAN : MonLogEntry(with_ticket)
    \/ \E ticket \in 1..MaxLogRows, pnl \in {None} \cup {Some(v) : v \in PnlValues} :
          MonLogExit(ticket, pnl)
    \/ MonCheck

SpecMon == MonInit /\ [][MonNext]_vars

(***************************************************************************)
(* TradingWorker: the worker thread inside run() and the stop() call of    *)
(* another thread.  The positions of the worker are "run" (entry of run),  *)
(* "loop" (the test of the while loop), "sleep30" (the sleep after a       *)
(* failed reconnect), "eval" (the per-symbol evaluation with its order and *)
(* stop-modification calls), "wait_check" and "wait_sleep" (the polling    *)
(* loop of _wait_for_next_bar), "closing" (after the loop) and "returned". *)
(* Of the signals only started, error and finished are recorded.           *)
(***************************************************************************)
MaxCycles == 2
MaxOps == 2

\* wait_seconds = max(10, min(310, wait_seconds))
MinWaitSeconds == 10
MaxWaitSeconds == 310

\* the seconds to the next five-minute boundary plus five: just past the
\* boundary, the whole five minutes, and a clock that yields more
RawWaitSeconds == {1, 305, 400}

WaitSeconds(raw) == Max(MinWaitSeconds, Min(MaxWaitSeconds, raw))

\* the polling loop without the test of the flag
WaitContinuesIgnoringStop(left, flag) == left > 0

\* for _ in range(int(wait_seconds)): if not self._running: break
WaitContinues(left, flag) == left > 0 /\ flag

Emitted(name) == Len(SelectSeq(tw_emitted, LAMBDA e : e = name))

TWInit ==
    /\ BTIdle
    /\ TSIdle
    /\ WFOIdle
    /\ FNIdle
    /\ MonIdle
    /\ tw_pc = "run"
    /\ running = TRUE
    /\ tw_models \in BOOLEAN
    /\ tw_cycles = 0
    /\ tw_ops = 0
    /\ tw_wait = 0
    /\ tw_emitted = <<>>
    /\ tw_stop_cycles = None
    /\ tw_late_sleeps = 0

\* run() up to the loop: started, the models, the return without models
TWSetup ==
    /\ tw_pc = "run"
    /\ IF tw_models
       THEN /\ tw_emitted' = Append(tw_emitted, "started")
            /\ tw_pc' = "loop"
       ELSE /\ tw_emitted' = tw_emitted \o <<"started", "error">>
            /\ tw_pc' = "returned"
    /\ UNCHANGED <<running, tw_models, tw_cycles, tw_ops, tw_wait, tw_stop_cycles,
                   tw_late_sleeps, monVars, btVars, tsVars, wfoVars, fnVars>>

\* while self._running: the flag is clear
TWLoopExit ==
    /\ tw_pc = "loop"
    /\ ~running
    /\ tw_pc' = "closing"
    /\ UNCHANGED <<running, tw_models, tw_cycles, tw_ops, tw_wait, tw_emitted,
                   tw_stop_cycles, tw_late_sleeps, monVars, btVars, tsVars, wfoVars, fnVars>>

\* the connection is lost and reconnect fails: time.sleep(30); continue
TWReconnectFail ==
    /\ tw_pc = "loop"
    /\ running
    /\ tw_pc' = "sleep30"
    /\ UNCHANGED <<running, tw_models, tw_cycles, tw_ops, tw_wait, tw_emitted,
                   tw_stop_cycles, tw_late_sleeps, monVars, btVars, tsVars, wfoVars, fnVars>>

TWSleep30 ==
    /\ tw_pc = "sleep30"
    /\ tw_pc' = "loop"
    /\ UNCHANGED <<running, tw_models, tw_cycles, tw_ops, tw_wait, tw_emitted,
                   tw_stop_cycles, tw_late_sleeps, monVars, btVars, tsVars, wfoVars, fnVars>>

\* a bar-evaluation cycle begins; ops is the number of send_order and
\* modify_position calls it will make
TWCycleStart(ops) ==
    /\ tw_pc = "loop"
    /\ running
    /\ tw_cycles < MaxCycles
    /\ tw_cycles' = tw_cycles + 1
    /\ tw_ops' = ops
    /\ tw_pc' = "eval"
    /\ UNCHANGED <<running, tw_models, tw_wait, tw_emitted, tw_stop_cycles,
                   tw_late_sleeps, monVars, btVars, tsVars, wfoVars, fnVars>>

\* one send_order or modify_position call returns
TWEvalOp ==
    /\ tw_pc = "eval"
    /\ tw_ops > 0
    /\ tw_ops' = tw_ops - 1
    /\ UNCHANGED <<tw_pc, running, tw_models, tw_cycles, tw_wait, tw_emitted,
                   tw_stop_cycles, tw_late_sleeps, monVars, btVars, tsVars, wfoVars, fnVars>>

\* the evaluation is over; _wait_for_next_bar computes wait_seconds
TWEvalEnd(raw) ==
    /\ tw_pc = "eval"
    /\ tw_ops = 0
    /\ tw_wait' = WaitSeconds(raw)
    /\ tw_pc' = "wait_check"
    /\ UNCHANGED <<running, tw_models, tw_cycles, tw_ops, tw_emitted, tw_stop_cycles,
                   tw_late_sleeps, monVars, btVars, tsVars, wfoVars, fnVars>>

\* the head of one iteration of the polling loop
TWWaitCheck ==
    /\ tw_pc = "wait_check"
    /\ IF WaitContinues(tw_wait, running)
       THEN /\ tw_pc' = "wait_sleep"
            /\ tw_wait' = tw_wait
       ELSE /\ tw_pc' = "loop"
            /\ tw_wait' = 0
    /\ UNCHANGED <<running, tw_models, tw_cycles, tw_ops, tw_emitted, tw_stop_cycles,
                   tw_late_sleeps, monVars, btVars, tsVars, wfoVars, fnVars>>

\* time.sleep(1) returns
TWWaitSleep ==
    /\ tw_pc = "wait_sleep"
    /\ tw_wait' = tw_wait - 1
    /\ tw_late_sleeps' = IF running THEN tw_late_sleeps ELSE tw_late_sleeps + 1
    /\ tw_pc' = "wait_check"
    /\ UNCHANGED <<running, tw_models, tw_cycles, tw_ops, tw_emitted, tw_stop_cycles,
                   monVars, btVars, tsVars, wfoVars, fnVars>>

\* after the loop: trade_logger.close(), finished.emit(None)
TWClose ==
    /\ tw_pc = "closing"
    /\ tw_emitted' = Append(tw_emitted, "finished")
    /\ tw_pc' = "returned"
    /\ UNCHANGED <<running, tw_models, tw_cycles, tw_ops, tw_wait, tw_stop_cycles,
                   tw_late_sleeps, monVars, btVars, tsVars, wfoVars, fnVars>>

\* stop(), called from another thread at any moment
TWStop ==
    /\ running
    /\ running' = FALSE
    /\ tw_stop_cycles' = Some(tw_cycles)
    /\ UNCHANGED <<tw_pc, tw_models, tw_cycles, tw_ops, tw_wait, tw_emitted,
                   tw_late_sleeps, monVars, btVars, tsVars, wfoVars, fnVars>>

\* the steps of the worker thread
TWWorker ==
    \/ TWSetup
    \/ TWLoopExit
    \/ TWReconnectFail
    \/ TWSleep30
    \/ \E ops \in 0..MaxOps : TWCycleStart(ops)
    \/ TWEvalOp
    \/ \E raw \in RawWaitSeconds : TWEvalEnd(raw)
    \/ TWWaitCheck
    \/ TWWaitSleep
    \/ TWClose

TWNext == TWWorker \/ TWStop

\* the worker thread is scheduled and its sleeps and external calls return;
\* nothing obliges another thread to call stop()
SpecTWLive == TWInit /\ [][TWNext]_vars /\ WF_vars(TWWorker)

(***************************************************************************)
(* Properties of BacktestEngine.run (checked under SpecBT).                *)
(***************************************************************************)
LastRow == feature_matrix[Len(feature_matrix)]

TradeIdx(t) == {k \in 1..Len(trades) : trades[k].entry_time = t}
PosIdx(t) == {j \in 1..Len(positions) : positions[j].entry_time = t}

\* C1: the trailing stop of an open position, once set, never worsens until
\* the position is closed: over every bar a long's level does not decrease and
\* a short's does not increase, in the position that stays open as well as in
\* the trailing exit price of the position the bar closes.
C1_TrailingNeverWorsens ==
    [][ \A j \in 1..Len(positions) :
          LET p == positions[j]
          IN  p.trailing_sl # None =>
                /\ \A k \in 1..Len(positions') :
                      positions'[k].entry_time = p.entry_time =>
                        /\ positions'[k].trailing_sl # None
                        /\ p.side = "buy" => positions'[k].trailing_sl[1] >= p.trailing_sl[1]
                        /\ p.side = "sell" => positions'[k].trailing_sl[1] <= p.trailing_sl[1]
                /\ \A k \in (Len(trades) + 1)..Len(trades') :
                      (trades'[k].entry_time = p.entry_time
                         /\ trades'[k].exit_reason = "trailing") =>
                        /\ p.side = "buy" => trades'[k].exit_price >= p.trailing_sl[1]
                        /\ p.side = "sell" => trades'[k].exit_price <= p.trailing_sl[1]
      ]_vars

\* a long with a trailing stop stayed open over a bar that activated the
\* trailing update with a level below the one in force
C1_Witness ==
    /\ bt_pc = "loop"
    /\ \E j \in 1..Len(positions) :
          LET p == positions[j]
              atr == RowAtr(LastRow)
          IN  /\ p.side = "buy"
              /\ p.entry_time < Len(feature_matrix) - 1
              /\ p.trailing_sl # None
              /\ LastRow.high >= p.entry_price + atr * settings.trailing_activation_atr
              /\ LastRow.high - atr * settings.trailing_atr_multiplier < p.trailing_sl[1]

\* C3: every position opened is closed exactly once: while the loop runs each
\* position opened is either still open or has exactly one trade, never both;
\* at return each has exactly one trade, the trades are as many as the positions
\* opened, and every exit reason is one of sl, tp, trailing, end.
C3_ClosedExactlyOnce ==
    /\ \A k \in 1..Len(trades) :
          /\ trades[k].exit_reason \in {"sl", "tp", "trailing", "end"}
          /\ \E o \in 1..Len(opened) : opened[o] = trades[k].entry_time
    /\ \A j \in 1..Len(positions) : \E o \in 1..Len(opened) : opened[o] = positions[j].entry_time
    /\ \A o \in 1..Len(opened) :
          /\ bt_pc = "loop" =>
                Cardinality(TradeIdx(opened[o])) + Cardinality(PosIdx(opened[o])) = 1
          /\ bt_pc = "done" => Cardinality(TradeIdx(opened[o])) = 1
    /\ bt_pc = "done" => Len(trades) = Len(opened)

\* a finished run with one position closed inside the loop and one liquidated
C3_Witness ==
    /\ bt_pc = "done"
    /\ Len(opened) >= 2
    /\ \E k \in 1..Len(trades) : trades[k].exit_reason = "end"
    /\ \E k \in 1..Len(trades) : trades[k].exit_reason \in {"sl", "tp", "trailing"}

\* C4: after every bar there is one equity point per bar read, and the point of
\* the bar just read is the initial balance plus the P&L of all trades closed so
\* far plus the unrealised P&L, at this bar's close, of the positions open after
\* the bar's exit and entry steps.
C4_EquityIsBalancePlusUnrealized ==
    /\ Len(equity_series) = Len(feature_matrix)
    /\ (bt_pc = "loop" /\ Len(feature_matrix) >= 1) =>
          LET n == Len(feature_matrix)
          IN  /\ equity_series[n].time = n
              /\ balance = settings.initial_balance + SumSeq(MapPnl(trades))
              /\ equity_series[n].value =
                    settings.initial_balance + SumSeq(MapPnl(trades))
                      + SumSeq([j \in 1..Len(positions) |->
                                  IF positions[j].side = "buy"
                                  THEN (LastRow.close - positions[j].entry_price)
                                         * positions[j].lot * (ContractSize \div LotScale)
                                  ELSE (positions[j].entry_price - LastRow.close)
                                         * positions[j].lot * (ContractSize \div LotScale)])

\* a bar that closed a trade, opened a position and left an unrealised P&L
C4_Witness ==
    /\ bt_pc = "loop"
    /\ Len(feature_matrix) >= 2
    /\ \E k \in 1..Len(trades) : trades[k].exit_time = Len(feature_matrix)
    /\ \E j \in 1..Len(positions) : positions[j].entry_time = Len(feature_matrix)
    /\ equity_series[Len(equity_series)].value # balance

\* C5: a run with a single position that no SL, TP or trailing exit closes
\* before the forced liquidation ends with balance = initial balance + the
\* trade's P&L, and the equity of the last bar equals that final balance.
C5_EquityConservation ==
    (bt_pc = "done" /\ Len(opened) = 1 /\ Len(trades) = 1 /\ trades[1].exit_reason = "end") =>
        /\ balance = settings.initial_balance + trades[1].pnl
        /\ equity_series[Len(equity_series)].value = balance

\* C6: a position is opened on bar i only if |prediction[i]| is strictly above
\* min_prediction_threshold; a run whose predictions are all zero has no trades
\* and no positions.
C6_NoTradeBelowThreshold ==
    /\ \A o \in 1..Len(opened) :
          /\ opened[o] <= Len(predictions)
          /\ Abs(predictions[opened[o]]) > settings.min_prediction_threshold
    /\ (\A k \in 1..Len(predictions) : predictions[k] = 0) =>
          (trades = <<>> /\ positions = <<>>)

\* a finished run that saw a prediction exactly at the threshold, with room for
\* a position, and opened nothing on that bar while it opened on another
C6_Witness ==
    /\ bt_pc = "done"
    /\ opened # <<>>
    /\ \E k \in 1..Len(predictions) :
          /\ Abs(predictions[k]) = settings.min_prediction_threshold
          /\ \A o \in 1..Len(opened) : opened[o] > k

\* C7: after every bar at most max_positions positions are open; a bar opens
\* at most one position, and only when the positions left after the bar's exits
\* are fewer than max_positions.
C7_MaxPositions ==
    [][ /\ Len(positions') <= settings.max_positions
        /\ Len(opened') <= Len(opened) + 1
        /\ Len(opened') = Len(opened) + 1 =>
              /\ positions'[Len(positions')].entry_time = opened'[Len(opened')]
              /\ Len(positions') - 1 < settings.max_positions
      ]_vars

\* max_positions positions are open and the last bar, whose prediction was above
\* the threshold, opened none
C7_Witness ==
    /\ bt_pc = "loop"
    /\ Len(positions) = settings.max_positions
    /\ Len(predictions) = Len(feature_matrix)
    /\ Len(predictions) >= 1
    /\ Abs(predictions[Len(predictions)]) > settings.min_prediction_threshold
    /\ \A o \in 1..Len(opened) : opened[o] < Len(feature_matrix)

\* C8: run on an empty feature matrix does not raise and returns an empty
\* result (no equity point, no trade).
C8_EmptyMatrixReturnsEmpty ==
    (feature_matrix = <<>> /\ bt_pc # "loop") =>
        (bt_pc = "done" /\ equity_series = <<>> /\ trades = <<>>)

\* a step of the bar loop
BarStep == Len(feature_matrix') = Len(feature_matrix) + 1

\* the bar of a bar step
NewRow == feature_matrix'[Len(feature_matrix')]

\* the trades a step appends that close the position entered at time t
NewTradesOf(t) ==
    {k \in (Len(trades) + 1)..Len(trades') : trades'[k].entry_time = t}

\* the SL-hit and TP-hit conditions of the exit check
HitSL(pos, row) == IF pos.side = "buy" THEN row.low <= pos.sl ELSE row.high >= pos.sl

HitTP(pos, row) == IF pos.side = "buy" THEN row.high >= pos.tp ELSE row.low <= pos.tp

\* the trailing level of a position after the update of the bar is touched
TrailingTouched(pos, row, level) ==
    IF pos.side = "buy" THEN row.low <= level ELSE row.high >= level

\* the levels the trailing stop of a position can have on a bar: the old one
\* or the one computed from the bar's extreme
TrailingLevels(pos, row, cfg) ==
    (IF pos.trailing_sl # None THEN {pos.trailing_sl[1]} ELSE {})
    \cup {IF pos.side = "buy" THEN row.high - RowAtr(row) * cfg.trailing_atr_multiplier
                              ELSE row.low + RowAtr(row) * cfg.trailing_atr_multiplier}

\* C19: on every bar and for every open position, long or short: if the SL
\* condition holds the position exits at sl with reason sl, whatever TP and
\* the trailing level say; otherwise if the TP condition holds it exits at tp
\* with reason tp; otherwise it exits only by a touched trailing stop, at the
\* trailing price, or stays open.
C19_ExitPriority ==
    [][BarStep =>
        \A j \in 1..Len(positions) :
            LET pos == positions[j]
                new == NewTradesOf(pos.entry_time)
            IN  /\ HitSL(pos, NewRow) =>
                      /\ Cardinality(new) = 1
                      /\ \A k \in new : /\ trades'[k].exit_reason = "sl"
                                        /\ trades'[k].exit_price = pos.sl
                /\ (~HitSL(pos, NewRow) /\ HitTP(pos, NewRow)) =>
                      /\ Cardinality(new) = 1
                      /\ \A k \in new : /\ trades'[k].exit_reason = "tp"
                                        /\ trades'[k].exit_price = pos.tp
                /\ (~HitSL(pos, NewRow) /\ ~HitTP(pos, NewRow)) =>
                      /\ Cardinality(new) <= 1
                      /\ \A k \in new :
                            /\ trades'[k].exit_reason = "trailing"
                            /\ trades'[k].exit_price \in TrailingLevels(pos, NewRow, settings)
                            /\ TrailingTouched(pos, NewRow, trades'[k].exit_price)
                      /\ new = {} => \E i \in 1..Len(positions') :
                                        positions'[i].entry_time = pos.entry_time
    ]_vars

\* the SL and TP a position entered on bar t got
EntrySL(t, side) ==
    LET row == feature_matrix[t]
    IN  IF side = "buy" THEN row.close - RowAtr(row) * settings.atr_sl_multiplier
                        ELSE row.close + RowAtr(row) * settings.atr_sl_multiplier

EntryTP(t, side) ==
    LET row == feature_matrix[t]
    IN  IF side = "buy" THEN row.close + RowAtr(row) * settings.atr_tp_multiplier
                        ELSE row.close - RowAtr(row) * settings.atr_tp_multiplier

\* a long closed at its SL on a bar that also reached its TP
C19_Witness ==
    \E k \in 1..Len(trades) :
        /\ trades[k].side = "buy"
        /\ trades[k].exit_reason = "sl"
        /\ feature_matrix[trades[k].exit_time].low <= EntrySL(trades[k].entry_time, "buy")
        /\ feature_matrix[trades[k].exit_time].high >= EntryTP(trades[k].entry_time, "buy")

\* C20 as stated: on no bar do the SL condition and the TP condition of an
\* open position hold together.
C20_SlTpMutuallyExclusive ==
    [][BarStep =>
        \A j \in 1..Len(positions) :
            ~(HitSL(positions[j], NewRow) /\ HitTP(positions[j], NewRow))
    ]_vars

\* C20 amended: the SL condition and the TP condition of an open position can
\* hold on the same bar (a bar whose range reaches both levels); the position
\* then exits at sl with reason sl, so the outcome is the one of the SL branch
\* that is evaluated first.
C20_BothHitExitsAtSl ==
    [][BarStep =>
        \A j \in 1..Len(positions) :
            (HitSL(positions[j], NewRow) /\ HitTP(positions[j], NewRow)) =>
                \E k \in NewTradesOf(positions[j].entry_time) :
                    /\ trades'[k].exit_reason = "sl"
                    /\ trades'[k].exit_price = positions[j].sl
    ]_vars

\* a short closed on a bar whose high reached its SL and whose low reached its TP
C20_Witness ==
    \E k \in 1..Len(trades) :
        /\ trades[k].side = "sell"
        /\ trades[k].exit_reason = "sl"
        /\ feature_matrix[trades[k].exit_time].high >= EntrySL(trades[k].entry_time, "sell")
        /\ feature_matrix[trades[k].exit_time].low <= EntryTP(trades[k].entry_time, "sell")

\* C21: for every closed position the realised P&L differs from the frictionless
\* P&L of the same trade (entered at the entry bar's close, exited at the exit
\* price, signed by side) by exactly spread * lot * 100000.
C21_SpreadChargedOnce ==
    \A k \in 1..Len(trades) :
        LET t == trades[k]
            entry_close == feature_matrix[t.entry_time].close
            frictionless == IF t.side = "buy"
                            THEN (t.exit_price - entry_close) * t.lot * (ContractSize \div LotScale)
                            ELSE (entry_close - t.exit_price) * t.lot * (ContractSize \div LotScale)
        IN  frictionless - t.pnl =
                Spread(settings, point) * t.lot * (ContractSize \div LotScale)

\* C22: the end-of-data liquidation appends, for every position still open and
\* in list order, one trade closed at the final bar's close and timestamp with
\* exit reason end; while the bar loop runs no trade has exit reason end.
C22_EndOnlyByLiquidation ==
    [][ /\ bt_pc = "loop" => \A k \in 1..Len(trades) : trades[k].exit_reason # "end"
        /\ bt_pc' = "loop" => \A k \in 1..Len(trades') : trades'[k].exit_reason # "end"
        /\ (bt_pc = "loop" /\ bt_pc' = "done") =>
              /\ Len(trades') = Len(trades) + Len(positions)
              /\ \A j \in 1..Len(positions) :
                    LET t == trades'[Len(trades) + j]
                    IN  /\ t.entry_time = positions[j].entry_time
                        /\ t.exit_reason = "end"
                        /\ t.exit_price = LastRow.close
                        /\ t.exit_time = Len(feature_matrix)
      ]_vars

\* a finished run of several bars that closed one position inside the loop and
\* liquidated another, opened before the final bar, at the final close
C22_Witness ==
    /\ bt_pc = "done"
    /\ \E k \in 1..Len(trades) : trades[k].exit_reason \in {"sl", "tp", "trailing"}
    /\ \E k \in 1..Len(trades) :
          /\ trades[k].exit_reason = "end"
          /\ trades[k].entry_time < Len(feature_matrix)
          /\ trades[k].exit_time = Len(feature_matrix)
          /\ trades[k].exit_price = LastRow.close

\* C23: a bar that opens a position leaves it open and records no trade for it,
\* whatever the bar's high and low; every trade with reason sl, tp or trailing
\* has exit_time strictly later than entry_time, and a trade closed on its own
\* entry bar has reason end.
C23_CausalPerBar ==
    [][ /\ Len(opened') = Len(opened) + 1 =>
              /\ \E j \in 1..Len(positions') :
                    positions'[j].entry_time = opened'[Len(opened')]
              /\ \A k \in 1..Len(trades') :
                    trades'[k].entry_time # opened'[Len(opened')]
        /\ \A k \in 1..Len(trades') :
              /\ trades'[k].exit_reason \in {"sl", "tp", "trailing"} =>
                    trades'[k].exit_time > trades'[k].entry_time
              /\ trades'[k].exit_time = trades'[k].entry_time =>
                    trades'[k].exit_reason = "end"
      ]_vars

\* a position opened on a bar whose low is at or below its stop loss and whose
\* high is at or above its take profit is still open after that bar
C23_Witness ==
    \E j \in 1..Len(positions) :
        /\ positions[j].entry_time = Len(feature_matrix)
        /\ positions[j].side = "buy"
        /\ LastRow.low <= positions[j].sl
        /\ LastRow.high >= positions[j].tp

(***************************************************************************)
(* Properties of update_trailing_stop (checked under SpecTS).              *)
(***************************************************************************)
\* C2: in a sequence of calls where current_sl is the stop in force, every
\* non-null result is strictly greater than current_sl for a long and strictly
\* less for a short, and becomes the stop in force; so the stop in force never
\* decreases for a long and never increases for a short.
C2_MonotonicTrailingStop ==
    [][ /\ ts_result' # None =>
              /\ ts_current_sl' = ts_result'[1]
              /\ ts_side = "buy" => ts_result'[1] > ts_current_sl
              /\ ts_side = "sell" => ts_result'[1] < ts_current_sl
        /\ ts_result' = None => ts_current_sl' = ts_current_sl
        /\ ts_side = "buy" => ts_current_sl' >= ts_current_sl
        /\ ts_side = "sell" => ts_current_sl' <= ts_current_sl
      ]_vars

\* a long whose stop an earlier call raised, and whose last call, made with
\* enough profit to activate trailing, proposed a stop that is not better
C2_Witness ==
    /\ ts_side = "buy"
    /\ ts_calls >= 2
    /\ ts_current_sl > InitialSl(ts_side, ts_entry_price)
    /\ ts_result = None
    /\ ts_price # None
    /\ ts_price[1] - ts_entry_price >= ts_stops.trailing_activation
    /\ ts_price[1] - ts_stops.trailing_distance < ts_current_sl

(***************************************************************************)
(* Properties of run_wfo (checked under SpecWFO).                          *)
(***************************************************************************)
\* C9: with horizon >= 1, the target of every training sample of every
\* recorded fold reads a close at a timestamp strictly before the fold's
\* test_start.
C9_NoTargetLeak ==
    horizon >= 1 =>
        \A f \in 1..Len(folds) :
            LET tr == folds[f].train_times
            IN  \A k \in 1..XTrainLen(tr, horizon) :
                    TargetRef(tr, k, horizon) < folds[f].test_start

\* a recorded fold whose test_start is the timestamp of a bar (the label slice
\* of the training window reached it) and whose training slice ends at the bar
\* just before it
C9_Witness ==
    /\ horizon = 1
    /\ \E f \in 1..Len(folds) :
          LET tr == folds[f].train_times
              ts == folds[f].test_times
          IN  /\ ts[1] = folds[f].test_start
              /\ tr[Len(tr)] = folds[f].test_start - 1
              /\ TargetRef(tr, XTrainLen(tr, horizon), horizon) = folds[f].test_start - 1

\* C10: in every recorded fold train_end = test_start; for consecutive recorded
\* folds test_start strictly increases and the earlier test_end is at most the
\* later test_start, with equality when the two folds come from consecutive
\* loop iterations.
C10_FoldBoundaries ==
    /\ \A f \in 1..Len(folds) :
          /\ folds[f].train_end = folds[f].test_start
          /\ folds[f].test_start < folds[f].test_end
    /\ \A f \in 1..(Len(folds) - 1) :
          /\ folds[f].test_start < folds[f + 1].test_start
          /\ folds[f].test_end <= folds[f + 1].test_start
          /\ folds[f + 1].fold_num = folds[f].fold_num + 1 =>
                folds[f + 1].test_start = folds[f].test_end

\* three recorded folds, two from consecutive iterations and two with a skipped
\* iteration between them
C10_Witness ==
    /\ Len(folds) >= 3
    /\ \E f \in 1..(Len(folds) - 1) : folds[f + 1].fold_num = folds[f].fold_num + 1
    /\ \E f \in 1..(Len(folds) - 1) : folds[f + 1].fold_num > folds[f].fold_num + 1

\* C11: the test slice of every recorded fold holds exactly the bars with
\* test_start <= timestamp < test_end, and the timestamps of the concatenated
\* equity are strictly increasing (no bar is backtested in two folds).
C11_TestSliceHalfOpen ==
    /\ \A f \in 1..Len(folds) :
          folds[f].test_times =
              SelectSeq(index, LAMBDA t : folds[f].test_start <= t /\ t < folds[f].test_end)
    /\ LET eq == EquityTimes(Concat(all_equities))
       IN  \A k \in 1..(Len(eq) - 1) : eq[k] < eq[k + 1]

\* C24: in every loop iteration, for every horizon >= 0, the training slice is
\* exactly the bars with train_start <= timestamp < cursor with the last
\* `horizon` of those bars removed (nothing removed when horizon is 0), and
\* every training row is strictly before test_start; the same for the training
\* slice of every recorded fold.
C24_TrainSliceHalfOpenPurged ==
    LET before(a, b) == SelectSeq(index, LAMBDA t : a <= t /\ t < b)
        purged(rows) == SubSeq(rows, 1, Max(Len(rows) - horizon, 0))
        last_cursor == cursor - Days(test_days)
    IN  /\ fold_num >= 1 =>
              /\ train_data = purged(before(last_cursor - Days(train_days), last_cursor))
              /\ \A k \in 1..Len(train_data) : train_data[k] < last_cursor
        /\ \A f \in 1..Len(folds) :
              /\ folds[f].train_times =
                    purged(before(folds[f].train_start, folds[f].test_start))
              /\ \A k \in 1..Len(folds[f].train_times) :
                    folds[f].train_times[k] < folds[f].test_start

\* C25: a loop iteration whose purged training slice has fewer than 100 rows or
\* whose test slice has fewer than 10 rows appends nothing to folds, to the
\* equities or to the trades and advances the cursor by exactly test_days;
\* every recorded fold has at least 100 training rows and at least 10 test rows.
C25_ShortFoldSkipped ==
    [][ /\ (fold_num' = fold_num + 1 /\
             (Len(train_data') < MinTrainRows \/ Len(test_data') < MinTestRows)) =>
              /\ folds' = folds
              /\ all_equities' = all_equities
              /\ all_trades' = all_trades
              /\ cursor' = cursor + Days(test_days)
        /\ \A f \in 1..Len(folds') :
              /\ Len(folds'[f].train_times) >= MinTrainRows
              /\ Len(folds'[f].test_times) >= MinTestRows
      ]_vars

\* after a recorded fold, an iteration with at least 100 training rows and fewer
\* than 10 test rows was skipped
C25_Witness ==
    /\ folds # <<>>
    /\ fold_num > folds[Len(folds)].fold_num
    /\ Len(train_data) >= MinTrainRows
    /\ Len(test_data) < MinTestRows
    /\ test_data # <<>>

\* C26: on a non-empty feature matrix every loop iteration, skipped or not,
\* strictly advances the cursor (so the loop condition cursor + test_days <= end
\* eventually fails and the call returns).
C26_CursorAdvances ==
    [][fold_num' = fold_num + 1 => cursor' > cursor]_vars

\* C27: the backtest of every recorded fold starts from initial_balance with no
\* open position (its first equity point is initial_balance plus the unrealised
\* P&L of the position the first bar opened, if any), and every trade recorded
\* for the fold has its entry_time and its exit_time on bars of the fold's own
\* test slice.
C27_FoldIsolated ==
    [][ Len(folds') = Len(folds) + 1 =>
          LET f == folds'[Len(folds')]
              eq == all_equities'[Len(all_equities')]
              tr == IF all_trades' # all_trades THEN all_trades'[Len(all_trades')] ELSE <<>>
              t1 == f.test_times[1]
              first == {k \in 1..Len(tr) : tr[k].entry_time = t1}
          IN  /\ Len(all_equities') = Len(all_equities) + 1
              /\ Len(tr) = f.num_trades
              /\ EquityTimes(eq) = f.test_times
              /\ Cardinality(first) <= 1
              /\ eq[1].value = settings.initial_balance +
                    (IF first = {} THEN 0
                     ELSE Unrealized(tr[CHOOSE k \in first : TRUE], WfoRow(t1).close))
              /\ \A k \in 1..Len(tr) :
                    /\ \E i \in 1..Len(f.test_times) : f.test_times[i] = tr[k].entry_time
                    /\ \E i \in 1..Len(f.test_times) : f.test_times[i] = tr[k].exit_time
                    /\ f.test_start <= tr[k].entry_time
                    /\ tr[k].exit_time <= f.test_end
      ]_vars

\* a second fold with trades recorded after a first fold that ended with a
\* balance other than initial_balance
C27_Witness ==
    /\ Len(folds) >= 2
    /\ folds[1].test_metrics.total_pnl # 0
    /\ folds[2].num_trades > 0

\* C12: a run_wfo call that has recorded no fold when it ends has returned
\* (it did not raise) a result with an empty fold list, an empty combined
\* equity, empty combined trades and an empty overall-metrics dict.
C12_ZeroFoldsReturnEmpty ==
    (wfo_pc \notin {"idle", "start", "loop"} /\ folds = <<>>) =>
        /\ wfo_pc = "done"
        /\ combined_equity = <<>>
        /\ combined_trades = <<>>
        /\ overall_metrics = EmptyDict

(***************************************************************************)
(* Properties of calc_max_drawdown (checked under SpecDD).                 *)
(***************************************************************************)
\* the running maximum of the equity at t
RunningMax(eq, t) ==
    CHOOSE m \in {eq[k] : k \in 1..t} : \A k \in 1..t : eq[k] <= m

\* C18: for every non-empty equity, dd_abs is the least equity[t] minus the
\* running maximum at t, dd_pct is the least of these differences divided by
\* the running maximum at t (a number), and both are non-positive; for the
\* equity [100, 110, 105, 95, 100, 115] the result is -15 and -15/110.
C18_MaxDrawdown ==
    dd_result # None =>
        LET eq == dd_equity[1]
            r == dd_result[1]
            T == 1..Len(eq)
        IN  /\ \A t \in T : r.dd_abs <= eq[t] - RunningMax(eq, t)
            /\ \E t \in T : r.dd_abs = eq[t] - RunningMax(eq, t)
            /\ r.dd_abs <= 0
            /\ r.dd_pct # None
            /\ r.dd_pct[1].den > 0
            /\ r.dd_pct[1].num <= 0
            /\ \A t \in T :
                  r.dd_pct[1].num * RunningMax(eq, t)
                      <= (eq[t] - RunningMax(eq, t)) * r.dd_pct[1].den
            /\ \E t \in T :
                  r.dd_pct[1].num * RunningMax(eq, t)
                      = (eq[t] - RunningMax(eq, t)) * r.dd_pct[1].den
            /\ eq = FixedEquity =>
                  /\ r.dd_abs = -15
                  /\ FracEq(r.dd_pct[1], [num |-> -15, den |-> 110])

(***************************************************************************)
(* Properties of calculate_stops (checked under SpecCS).                   *)
(***************************************************************************)
\* C17: for every prediction, every atr > 0 and positive multipliers the
\* returned levels satisfy sl < entry_price < tp for a buy and
\* tp < entry_price < sl for a sell, and trailing_distance > 0.
C17_StopsOnCorrectSides ==
    (cs_result # None /\ cs_args[1].atr > 0
        /\ cs_args[1].settings.atr_sl_multiplier > 0
        /\ cs_args[1].settings.atr_tp_multiplier > 0
        /\ cs_args[1].settings.trailing_atr_multiplier > 0) =>
        LET entry == cs_args[1].entry_price * StopScale
            r == cs_result[1]
        IN  /\ cs_args[1].side = "buy" => (r.sl < entry /\ entry < r.tp)
            /\ cs_args[1].side = "sell" => (r.tp < entry /\ entry < r.sl)
            /\ r.trailing_distance > 0

\* a sell with a prediction beyond the cap of the adjustment: the SL is 10 %
\* tighter and the TP 20 % wider than the ATR levels
C17_Witness ==
    /\ cs_result # None
    /\ cs_args[1].side = "sell"
    /\ cs_args[1].atr = 500
    /\ cs_args[1].prediction = 50
    /\ cs_args[1].settings = MakeSettings(1, 0)
    /\ cs_result[1].sl = (cs_args[1].entry_price + 900) * StopScale
    /\ cs_result[1].tp = (cs_args[1].entry_price - 1800) * StopScale

(***************************************************************************)
(* Properties of calculate_lot (checked under SpecCL).                     *)
(***************************************************************************)
\* the SL distance of a call is a positive number
SlDistancePositive(a) == a.atr # None /\ a.atr[1] * a.settings.atr_sl_multiplier > 0

\* C15 as stated: calculate_lot returns 0 for every input with
\* |prediction| <= min_prediction_threshold, whatever the balance and ATR.
C15_ZeroBelowThreshold ==
    (cl_result # None
        /\ Abs(cl_args[1].prediction) <= cl_args[1].settings.min_prediction_threshold) =>
        cl_result[1] = 0

\* C15 amended: calculate_lot returns 0 for every input with
\* |prediction| <= min_prediction_threshold and a positive SL distance
\* (atr * atr_sl_multiplier > 0), whatever the balance; when the SL distance
\* is non-positive or NaN it returns min_lot, also for such a prediction.
C15_ZeroBelowThresholdPositiveSl ==
    (cl_result # None
        /\ Abs(cl_args[1].prediction) <= cl_args[1].settings.min_prediction_threshold) =>
        /\ SlDistancePositive(cl_args[1]) => cl_result[1] = 0
        /\ ~SlDistancePositive(cl_args[1]) => cl_result[1] = cl_args[1].settings.min_lot

\* a prediction equal to the threshold, on a balance and ATR that give a lot
\* above min_lot to a larger prediction: the lot is 0
C15_Witness ==
    /\ cl_result # None
    /\ cl_args[1].prediction = 5
    /\ cl_args[1].balance = 240000
    /\ cl_args[1].atr = Some(1)
    /\ cl_result[1] = 0

ListedGate(a) ==
    LET mf == a.settings.market_filter
    IN  \/ (mf.enabled /\ a.regime = "ranging")
        \/ (mf.enabled /\ a.spread_pips > mf.max_spread_pips)
        \/ (mf.enabled /\ mf.session_only /\ a.current_hour_utc # None
              /\ a.current_hour_utc[1] \notin 7..21)
        \/ a.confidence < a.settings.min_confidence
        \/ Abs(a.prediction) < a.settings.core.min_prediction_threshold

\* C13: generate_signal returns a HOLD signal whenever the market filter is
\* enabled and the regime is ranging, or it is enabled and the spread exceeds
\* max_spread_pips, or it is enabled with session_only and the given UTC hour
\* is outside 7..21, or confidence < min_confidence, or
\* |prediction| < min_prediction_threshold, whatever the other inputs.
C13_GatesHold ==
    (gs_result # None /\ ListedGate(gs_args[1])) => gs_result[1] = MakeHold

\* the session gate alone: hour 22 with session_only, a trending regime, a
\* narrow spread, an ATR% inside the band, full confidence and a prediction
\* above the threshold
C13_Witness ==
    /\ gs_result # None
    /\ gs_result[1] = MakeHold
    /\ LET a == gs_args[1]
       IN  /\ a.settings.market_filter.session_only
           /\ a.current_hour_utc = Some(22)
           /\ a.regime = "trend_up"
           /\ a.spread_pips = 0
           /\ ~AtrPctGate(a.current_price, a.atr)
           /\ a.confidence = 100
           /\ a.prediction = 6

\* C28: with the market filter enabled and neither the regime gate nor the
\* spread gate matching, generate_signal returns HOLD for every atr >= 0 and
\* current_price > 0 whose atr / current_price * 100 lies outside [0.02, 0.5];
\* a value inside the closed interval does not match the ATR% gate.
C28_AtrPctOutsideBandHolds ==
    (gs_result # None
        /\ gs_args[1].settings.market_filter.enabled
        /\ gs_args[1].regime # "ranging"
        /\ gs_args[1].spread_pips <= gs_args[1].settings.market_filter.max_spread_pips
        /\ gs_args[1].atr # None
        /\ gs_args[1].atr[1] >= 0
        /\ gs_args[1].current_price > 0) =>
        LET atr == gs_args[1].atr[1]
            current_price == gs_args[1].current_price
            outside == atr * 5000 < current_price \/ atr * 200 > current_price
        IN  /\ outside => gs_result[1] = MakeHold
            /\ ~outside => ~AtrPctGate(current_price, gs_args[1].atr)

\* C14: when no gate matches, generate_signal returns a TradeSignal whose
\* action is BUY for prediction > 0 and SELL otherwise, with the lot of
\* calculate_lot (HOLD if that lot is 0) and the SL, TP and trailing
\* parameters of calculate_stops.
C14_SignalWhenNoGate ==
    (gs_result # None
        /\ ~MarketFilterGate(gs_args[1])
        /\ ~ListedGate(gs_args[1])) =>
        LET a == gs_args[1]
            r == gs_result[1]
        IN  /\ r.kind = "signal"
            /\ LET lot == CalculateLot(a.prediction, a.balance, a.atr, a.point,
                                       a.settings.core)
               IN  IF lot = 0 THEN r = MakeHold
                   ELSE /\ r.action = IF a.prediction > 0 THEN "buy" ELSE "sell"
                        /\ r.lot = lot
                        /\ a.atr # None =>
                              LET stops == CalculateStops(r.action, a.current_price,
                                                          a.prediction, a.atr[1],
                                                          a.settings.core)
                              IN  /\ r.sl = stops.sl
                                  /\ r.tp = stops.tp
                                  /\ r.trailing_activation = stops.trailing_activation
                                  /\ r.trailing_distance = stops.trailing_distance

(***************************************************************************)
(* Properties of ModelMonitor.check (checked under SpecMon).               *)
(***************************************************************************)
\* C29: right after a check(), healthy is False if and only if at least
\* `window` trades have a recorded pnl and, over the `window` of them with the
\* highest ids, win_rate < min_win_rate or sharpe < min_sharpe; with fewer
\* than `window` such trades healthy is True; the metrics count and sum only
\* trades with a recorded pnl, so open trades never enter them.
C29_UnhealthyIffWindowFails ==
    mon_last = "check" =>
        LET closed == SelectSeq(tl_rows, LAMBDA r : r.pnl # None)
            n == Len(closed)
            w == mon_cfg.window
            m == Min(n, w)
            recent == [k \in 1..m |-> closed[n - m + k].pnl[1]]
            wins == Cardinality({k \in 1..m : recent[k] > 0})
            fails == \/ wins * 100 < mon_cfg.min_win_rate * m
                     \/ SharpeLess(SharpeOf(recent), mon_cfg.min_sharpe)
            r == mon_result[1]
        IN  /\ (r.healthy = FALSE) <=> (n >= w /\ fails)
            /\ n < w => r.healthy = TRUE
            /\ r.metrics.count = m
            /\ m > 0 => r.metrics.total_pnl = Some(SumSeq(recent))

\* a check that reports unhealthy over the two most recent closed trades while
\* an older winning trade lies outside the window and a trade between the two
\* is still open
C29_Witness ==
    /\ mon_last = "check"
    /\ mon_result[1].healthy = FALSE
    /\ mon_cfg.window = 2
    /\ Len(tl_rows) = 4
    /\ tl_rows[1].pnl = Some(2)
    /\ tl_rows[2].pnl # None
    /\ tl_rows[3].pnl = None
    /\ tl_rows[4].pnl # None

(***************************************************************************)
(* Properties of TradingWorker (checked under SpecTWLive).                 *)
(***************************************************************************)
\* once stop() has cleared the flag, no further bar-evaluation cycle is
\* started, the evaluation in flight is left only when all its order and
\* stop-modification calls are made, at most one sleep of the bar wait returns
\* after the flag was cleared, and finished is never emitted twice
StopIsCooperative ==
    /\ [](/\ tw_stop_cycles # None => tw_cycles = tw_stop_cycles[1]
          /\ tw_late_sleeps <= 1
          /\ Emitted("finished") <= 1)
    /\ [][(~running /\ tw_pc = "eval" /\ tw_ops > 0) =>
             (tw_pc' = "eval" /\ tw_ops' \in {tw_ops, tw_ops - 1})]_vars

====
